---- MODULE Spec2Model ----
(***************************************************************************)
(* Model of the AI Workbench folder visualizer: the path classifier        *)
(* (isAllowedEntry), the recursive workspace scanner (scanDirectory), the  *)
(* status badge parser (parseStatus), the Jira link inserter, the          *)
(* workspace mutator (checkDirectoryExists, createFeatureDirectory), the   *)
(* create-feature modal, the tree refresh, the answer drafts of the        *)
(* analysis panel and the handling of backend failures.                    *)
(*                                                                         *)
(* JavaScript strings are modelled as sequences of atoms.  For paths and   *)
(* entry names an atom is either a whole entry name (a TLA+ string that    *)
(* holds no '/') or the separator "/"; the empty string is <<>>.  For the  *)
(* text handed to parseStatus an atom is one character.                    *)
(***************************************************************************)
EXTENDS Integers, Sequences, FiniteSets, TLC

VARIABLES
    cSegs,       \* classifier harness: names of the directories walked into, outermost first
    cPath,       \* classifier harness: the currentPath handed to isAllowedEntry
    cVerdict,    \* classifier harness: verdict per (entryName, entryKind) of the last listing
    fs,          \* the directory tree on disk: function from entry path to entry kind
    stack,       \* activation records of scanDirectory, innermost last
    failed,      \* directories whose listing threw, with the children collected so far
    listed,      \* directories scanDirectory was called on
    result,      \* value the root scanDirectory call resolved with (NoResult before)
    content,     \* text of a status.md file, handed to parseStatus
    typed,       \* number of pieces of text typed into content
    status,      \* value parseStatus returned for content
    variant,     \* a second text, equal to content on the examined sample
    variantStatus, \* value parseStatus returned for variant
    currentFeatureContent, \* jira.js: text of the open feature.md (NoText when none is open)
    featureFile,  \* text last written to the open feature.md by the link inserter (NoText before)
    linkTyped,    \* number of pieces of text typed into the open feature.md
    contentBefore, \* currentFeatureContent as the link inserter found it
    insertedLink, \* the link line the inserter was handed (NoText before)
    insertIndex,  \* the line index the inserter spliced at (-1 before)
    workspace,    \* the workspace the mutator works on: function from entry path to entry
    denied,       \* entry paths the browser refuses access to
    checked,      \* last checkDirectoryExists call: its arguments and outcome
    created,      \* last createFeatureDirectory call: its arguments and outcome
    form,         \* create-feature modal: value of the name input, feature type, selected project
    debounceTimer, \* TRUE while the name input's validation timer is pending
    submitDisabled, \* btn-submit-create.disabled
    tasks,        \* validations and submissions waiting for the file system, oldest first
    calls,        \* createFeatureDirectory calls made by submissions
    currentDirHandle, \* app.js: the selected workspace (NoHandle before a selection)
    scans,        \* scanDirectory calls of refresh() that have not settled
    currentStructure, \* app.js: the last structure a scan resolved with
    treePanel,    \* what the tree panel shows
    scanCount,    \* number of scans started
    latestSettled, \* number of the most recently started scan among those that resolved
    workspacePath, \* text and 'active' class of the workspace label
    btnRefreshDisabled, \* btn-refresh.disabled
    btnCreateFeatureDisabled, \* btn-create-feature.disabled
    picked,       \* last directory picker rejection handled: the error and the page around it
    currentSessionId, \* analyze.js: id of the analysis session (0 for null)
    questionInputs, \* values of the .question-input fields in the panel, <<>> when it has none
    saveTimer,    \* TRUE while the draft-save timer is pending
    localStorage, \* draft entries: function from session id to the drafts stored for it
    answerRequests, \* session ids of the POST .../answers requests without a response
    cleared,      \* sessions whose answers were accepted or whose panel was closed
    sessionCount, \* number of analysis sessions the backend has started
    analysisContent, \* what the analysis panel shows, with the message of an error state
    analysisWebSocket, \* TRUE while the analysis WebSocket delivers events
    analyzeRequest, \* TRUE while POST /api/analyze/start has no response
    jiraModal,    \* what the Jira modal shows, with the message of an error state
    jiraRequest,  \* TRUE while POST /api/jira/create has no response
    lastFailure,  \* the backend failure the last step handled, NoFailure otherwise
    files,        \* text of the files of the tree on disk, by file handle
    currentFileNode, \* app.js: the file node clicked last (NoNode before a click)
    reads,        \* readFile calls of handleFileClick and handleFeatureUpdated that have not settled
    currentFeature, \* jira.js: handle and content last handed to setCurrentFeature
    btnCreateJiraDisabled, \* btn-create-jira.disabled
    contentPanel, \* what the content panel shows
    saveTimeouts, \* pending auto-saves of the editor: file handle and text to write
    jiraDialog,   \* state of the Jira modal: hidden, form, loading, success or error
    ticketCount,  \* number of tickets requested
    editCount,    \* number of input events in the editor
    written,      \* last write of the link inserter: the text on disk before it, the text written
    analysisPanelHidden, \* analyze.js: analysisPanel carries the class 'hidden'
    analysisFooterHidden, \* analysisFooter carries the class 'hidden'
    btnSubmitAnswersDisabled, \* btn-submit-answers.disabled
    startRequests, \* number of POST /api/analyze/start requests without a response
    socketSession, \* session of the WebSocket analysisWebSocket refers to (0 for null)
    openSockets,  \* sessions whose WebSocket has been created and not closed
    questionsOf,  \* number of questions of the most recent 'questions' event, by session
    answerPosts,  \* number of POST .../answers requests without a response
    posted        \* last answers request: its session, its answers, the questions it answers

classifierVars == <<cSegs, cPath, cVerdict>>
scannerVars == <<fs, stack, failed, listed, result>>
statusVars == <<content, typed, status, variant, variantStatus>>
jiraVars == <<currentFeatureContent, featureFile, linkTyped, contentBefore,
              insertedLink, insertIndex>>
mutatorVars == <<workspace, denied, checked, created>>
createVars == <<form, debounceTimer, submitDisabled, tasks, calls>>
refreshVars == <<currentDirHandle, scans, currentStructure, treePanel, scanCount,
                 latestSettled, workspacePath, btnRefreshDisabled,
                 btnCreateFeatureDisabled, picked>>
draftVars == <<currentSessionId, questionInputs, saveTimer, localStorage, answerRequests,
               cleared, sessionCount>>
backendVars == <<analysisContent, analysisWebSocket, analyzeRequest, jiraModal, jiraRequest,
                 lastFailure>>
pageChrome == <<workspacePath, btnRefreshDisabled, btnCreateFeatureDisabled>>
viewerVars == <<files, currentFileNode, reads, currentFeature, btnCreateJiraDisabled,
                contentPanel, saveTimeouts, jiraDialog, ticketCount, editCount, written>>
sessionVars == <<analysisPanelHidden, analysisFooterHidden, btnSubmitAnswersDisabled,
                 startRequests, socketSession, openSockets, questionsOf, answerPosts,
                 posted>>
frontendVars == <<jiraVars, mutatorVars, createVars, refreshVars, draftVars, backendVars,
                  viewerVars, sessionVars>>

\* what the actions of one component leave alone
notJiraVars == <<classifierVars, scannerVars, statusVars, mutatorVars, createVars,
                 refreshVars, draftVars, backendVars,
    viewerVars, sessionVars>>
notMutatorVars == <<classifierVars, scannerVars, statusVars, jiraVars, createVars,
                    refreshVars, draftVars, backendVars,
    viewerVars, sessionVars>>
notCreateVars == <<classifierVars, scannerVars, statusVars, jiraVars, refreshVars,
                   draftVars, backendVars,
    viewerVars, sessionVars>>
notRefreshVars == <<classifierVars, scannerVars, statusVars, jiraVars, mutatorVars,
                    createVars, draftVars, backendVars,
    viewerVars, sessionVars>>
notDraftVars == <<classifierVars, scannerVars, statusVars, jiraVars, mutatorVars,
                  createVars, refreshVars, backendVars,
    viewerVars, sessionVars>>
notBackendVars == <<classifierVars, scannerVars, statusVars, jiraVars, mutatorVars,
                    createVars, refreshVars, draftVars,
    viewerVars, sessionVars>>
notViewerVars == <<classifierVars, scannerVars, statusVars, jiraVars, mutatorVars,
                   createVars, refreshVars, draftVars, backendVars, sessionVars>>
\* what the actions of the analysis panel leave alone, the draft variables aside
notPanelVars == <<classifierVars, scannerVars, statusVars, jiraVars, mutatorVars,
                  createVars, refreshVars, backendVars, viewerVars>>

vars == <<classifierVars, scannerVars, statusVars, frontendVars>>

-----------------------------------------------------------------------------
(* Strings *)

SEP == "/"

\* the JS string holding exactly the entry name n
Str(n) == IF n = "" THEN <<>> ELSE <<n>>

\* template literal `${a}/${b}`
Slash(a, b) == a \o <<SEP>> \o b

\* String.prototype.split('/'): the pieces between separators, empty pieces kept
RECURSIVE SplitFrom(_, _, _)
SplitFrom(s, i, cur) ==
    IF i > Len(s) THEN <<cur>>
    ELSE IF s[i] = SEP THEN <<cur>> \o SplitFrom(s, i + 1, <<>>)
    ELSE SplitFrom(s, i + 1, Append(cur, s[i]))

Split(s) == SplitFrom(s, 1, <<>>)

-----------------------------------------------------------------------------
(* PathClassifier *)

FILE == "file"
DIRECTORY == "directory"
Kinds == {FILE, DIRECTORY}

getPathSegments(path) == IF path # <<>> THEN Split(path) ELSE <<>>

\* isFeatureFolder with the segments[2] === 'features' test of the project rule dropped
isFeatureFolder_AnyThird(segments) ==
    LET depth == Len(segments) IN
    IF depth = 2 /\ segments[1] = Str("features") THEN TRUE
    ELSE IF depth = 4 /\ segments[1] = Str("projects") THEN TRUE
    ELSE FALSE

isFeatureFolder(segments) ==
    LET depth == Len(segments) IN
    IF depth = 2 /\ segments[1] = Str("features") THEN TRUE
    ELSE IF depth = 4 /\ segments[1] = Str("projects") /\ segments[3] = Str("features") THEN TRUE
    ELSE FALSE

isAgentsFolder(segments) ==
    LET depth == Len(segments) IN
    IF depth = 0 \/ segments[depth] # Str("agents") THEN FALSE
    ELSE IF depth = 3 /\ segments[1] = Str("features") THEN TRUE
    ELSE IF depth = 5 /\ segments[1] = Str("projects") /\ segments[3] = Str("features") THEN TRUE
    ELSE FALSE

isAgentFolder(segments) ==
    LET depth == Len(segments) IN
    IF depth = 4 /\ segments[1] = Str("features") /\ segments[3] = Str("agents") THEN TRUE
    ELSE IF depth = 6 /\ segments[1] = Str("projects") /\ segments[3] = Str("features")
                      /\ segments[5] = Str("agents") THEN TRUE
    ELSE FALSE

\* rootRule letting every directory of the workspace root through
rootRule_AnyDirectory(entryName, entryKind) ==
    entryKind = DIRECTORY

\* Root level: only allow 'projects' and 'features' directories
rootRule(entryName, entryKind) ==
    IF entryKind = DIRECTORY
    THEN entryName = Str("projects") \/ entryName = Str("features")
    ELSE FALSE

\* agentFolderRule that forgets to reject directories
agentFolderRule_Directories(entryName, entryKind) ==
    IF entryKind = FILE
    THEN entryName = Str("task-instructions.md") \/ entryName = Str("status.md")
    ELSE TRUE

\* Inside an agent folder: allow 'task-instructions.md' and 'status.md' files only
agentFolderRule(entryName, entryKind) ==
    IF entryKind = FILE
    THEN entryName = Str("task-instructions.md") \/ entryName = Str("status.md")
    ELSE FALSE

isAllowedEntry(entryName, entryKind, currentPath) ==
    LET segments == getPathSegments(currentPath)
        depth == Len(segments)
    IN  IF depth = 0
        THEN rootRule(entryName, entryKind)
        ELSE IF segments[1] = Str("projects") /\ depth = 1
        THEN entryKind = DIRECTORY
        ELSE IF segments[1] = Str("projects") /\ depth = 2
        THEN IF entryKind = DIRECTORY THEN entryName = Str("features")
             ELSE IF entryKind = FILE THEN entryName = Str("overview.md")
             ELSE FALSE
        ELSE IF segments[1] = Str("projects") /\ depth = 3 /\ segments[3] = Str("features")
        THEN entryKind = DIRECTORY
        ELSE IF segments[1] = Str("features") /\ depth = 1
        THEN entryKind = DIRECTORY
        ELSE IF isFeatureFolder(segments)
        THEN IF entryKind = DIRECTORY THEN entryName = Str("agents")
             ELSE IF entryKind = FILE THEN entryName = Str("feature.md")
             ELSE FALSE
        ELSE IF isAgentsFolder(segments)
        THEN entryKind = DIRECTORY
        ELSE IF isAgentFolder(segments)
        THEN agentFolderRule(entryName, entryKind)
        ELSE FALSE

-----------------------------------------------------------------------------
(* Classifier harness: walk into arbitrary directory chains and classify   *)
(* every candidate entry of the directory reached, the way scanDirectory   *)
(* consults isAllowedEntry for each entry of a listing.                    *)

MaxDepth == 7

SegNames == {"projects", "features", "agents", "acme"}

EntryNames == {"projects", "features", "agents", "overview.md", "feature.md",
               "task-instructions.md", "status.md", "acme", "Features"}

\* entryPath joined with a slash even under the empty root path
entryPathOf_AlwaysSlash(path, name) == Slash(path, name)

\* entryPath of scanDirectory: path ? `${path}/${entry.name}` : entry.name
entryPathOf(path, name) == IF path # <<>> THEN Slash(path, name) ELSE name

Verdicts(path) ==
    [e \in EntryNames \X Kinds |-> isAllowedEntry(Str(e[1]), e[2], path)]

NoResult == [type |-> "none"]
NoStatus == "none"
NoVariant == <<"none">>

ScannerIdle ==
    /\ fs = <<>>
    /\ stack = <<>>
    /\ failed = {}
    /\ listed = {}
    /\ result = NoResult

StatusIdle ==
    /\ content = <<>>
    /\ typed = 0
    /\ status = NoStatus
    /\ variant = NoVariant
    /\ variantStatus = NoStatus

ClassifierIdle ==
    /\ cSegs = <<>>
    /\ cPath = <<>>
    /\ cVerdict = <<>>

\* no text: distinct from every text, the empty one included
NoText == <<"none">>

JiraIdle ==
    /\ currentFeatureContent = NoText
    /\ featureFile = NoText
    /\ linkTyped = 0
    /\ contentBefore = NoText
    /\ insertedLink = NoText
    /\ insertIndex = -1

NoCall == [call |-> "none"]

MutatorIdle ==
    /\ workspace = <<>>
    /\ denied = {}
    /\ checked = NoCall
    /\ created = NoCall

CreateIdle ==
    /\ form = <<>>
    /\ debounceTimer = FALSE
    /\ submitDisabled = TRUE
    /\ tasks = <<>>
    /\ calls = {}

NoHandle == "none"
NoStructure == [scan |-> 0]

\* the application after init(): no workspace selected, nothing scanned
RefreshIdle ==
    /\ currentDirHandle = NoHandle
    /\ scans = {}
    /\ currentStructure = NoStructure
    /\ treePanel = "placeholder"
    /\ scanCount = 0
    /\ latestSettled = 0
    /\ workspacePath = [textContent |-> "No workspace selected", active |-> FALSE]
    /\ btnRefreshDisabled = TRUE
    /\ btnCreateFeatureDisabled = TRUE
    /\ picked = NoCall

\* the analysis panel after initAnalysisPanel(): no session, nothing stored
DraftIdle ==
    /\ currentSessionId = 0
    /\ questionInputs = <<>>
    /\ saveTimer = FALSE
    /\ localStorage = <<>>
    /\ answerRequests = {}
    /\ cleared = {}
    /\ sessionCount = 0

NoFailure == [during |-> "none", kind |-> "none"]
Shows(what) == [show |-> what, message |-> ""]

\* both panels hidden, nothing requested
BackendIdle ==
    /\ analysisContent = Shows("hidden")
    /\ analysisWebSocket = FALSE
    /\ analyzeRequest = FALSE
    /\ jiraModal = Shows("hidden")
    /\ jiraRequest = FALSE
    /\ lastFailure = NoFailure

NoNode == [name |-> "none", handle |-> NoHandle]
NoFeature == [handle |-> NoHandle, content |-> NoText]

\* no file clicked, the Create Jira button disabled, the Jira modal hidden
ViewerIdle ==
    /\ files = <<>>
    /\ currentFileNode = NoNode
    /\ reads = {}
    /\ currentFeature = NoFeature
    /\ btnCreateJiraDisabled = TRUE
    /\ contentPanel = [show |-> "placeholder"]
    /\ saveTimeouts = {}
    /\ jiraDialog = "hidden"
    /\ ticketCount = 0
    /\ editCount = 0
    /\ written = NoCall

\* the analysis panel hidden, no session, nothing requested
SessionIdle ==
    /\ analysisPanelHidden = TRUE
    /\ analysisFooterHidden = TRUE
    /\ btnSubmitAnswersDisabled = TRUE
    /\ startRequests = 0
    /\ socketSession = 0
    /\ openSockets = {}
    /\ questionsOf = <<>>
    /\ answerPosts = 0
    /\ posted = NoCall

FrontendIdle ==
    /\ SessionIdle
    /\ ViewerIdle
    /\ JiraIdle
    /\ MutatorIdle
    /\ CreateIdle
    /\ RefreshIdle
    /\ DraftIdle
    /\ BackendIdle

InitClassifier ==
    /\ cSegs = <<>>
    /\ cPath = <<>>
    /\ cVerdict = Verdicts(<<>>)
    /\ ScannerIdle
    /\ StatusIdle
    /\ FrontendIdle

ClassifyChildListing(seg) ==
    /\ Len(cSegs) < MaxDepth
    /\ cSegs' = Append(cSegs, seg)
    /\ cPath' = entryPathOf(cPath, Str(seg))
    /\ cVerdict' = Verdicts(cPath')
    /\ UNCHANGED <<scannerVars, statusVars, frontendVars>>

NextClassifier == \E seg \in SegNames : ClassifyChildListing(seg)

SpecClassifier == InitClassifier /\ [][NextClassifier]_vars

-----------------------------------------------------------------------------
(* The workspace on disk.  An entry is named by the sequence of entry      *)
(* names leading to it from the workspace root (<<>> is the root itself);  *)
(* a FileSystemHandle is modelled by the path of the entry it refers to.   *)

MaxEntries == 7
MaxFailures == 1

\* name of the directory handle the user picked as workspace
RootName == "work"

\* "resume(NFC)" and "resume(NFD)" stand for the two spellings of one accented
\* name, precomposed and decomposed: different entry names on disk, canonically
\* equivalent as Unicode strings.
Universe == {
    [path |-> <<"projects">>,                                             kind |-> DIRECTORY],
    [path |-> <<"features">>,                                             kind |-> DIRECTORY],
    [path |-> <<"notes.txt">>,                                            kind |-> FILE],
    [path |-> <<"docs">>,                                                 kind |-> DIRECTORY],
    [path |-> <<"docs", "feature.md">>,                                   kind |-> FILE],
    [path |-> <<"projects", "acme">>,                                     kind |-> DIRECTORY],
    [path |-> <<"projects", "acme", "features">>,                         kind |-> DIRECTORY],
    [path |-> <<"projects", "acme", "overview.md">>,                      kind |-> FILE],
    [path |-> <<"projects", "acme", "readme.txt">>,                       kind |-> FILE],
    [path |-> <<"projects", "acme", "features", "login">>,                kind |-> DIRECTORY],
    [path |-> <<"projects", "acme", "features", "login", "feature.md">>,  kind |-> FILE],
    [path |-> <<"projects", "acme", "features", "login", "agents">>,      kind |-> DIRECTORY],
    [path |-> <<"projects", "acme", "features", "login", "agents", "bot">>,
                                                                          kind |-> DIRECTORY],
    [path |-> <<"projects", "acme", "features", "login", "agents", "bot", "status.md">>,
                                                                          kind |-> FILE],
    [path |-> <<"projects", "acme", "features", "login", "agents", "bot", "logs">>,
                                                                          kind |-> DIRECTORY],
    [path |-> <<"features", "resume(NFC)">>,                              kind |-> DIRECTORY],
    [path |-> <<"features", "resume(NFD)">>,                              kind |-> DIRECTORY],
    [path |-> <<"features", "Zed">>,                                      kind |-> DIRECTORY],
    [path |-> <<"features", "resume(NFC)", "feature.md">>,                kind |-> FILE],
    [path |-> <<"features", "resume(NFC)", "agents">>,                    kind |-> DIRECTORY],
    [path |-> <<"features", "resume(NFC)", "agents", "bot">>,             kind |-> DIRECTORY],
    [path |-> <<"features", "resume(NFC)", "agents", "bot", "status.md">>,
                                                                          kind |-> FILE],
    [path |-> <<"features", "resume(NFC)", "agents", "bot", "task-instructions.md">>,
                                                                          kind |-> FILE],
    [path |-> <<"features", "resume(NFC)", "agents", "bot", "tmp">>,      kind |-> DIRECTORY] }

Front(s) == SubSeq(s, 1, Len(s) - 1)
Last(s) == s[Len(s)]

\* the sets of at most n entries of Universe that hold the parent directory of
\* each of their entries
RECURSIVE Workspaces(_)
Workspaces(n) ==
    IF n = 0 THEN {{}}
    ELSE LET smaller == Workspaces(n - 1)
         IN  smaller \cup
             UNION { { w \cup {e} :
                         e \in { u \in Universe :
                                   \/ Len(u.path) = 1
                                   \/ [path |-> Front(u.path), kind |-> DIRECTORY] \in w } } :
                     w \in smaller }

AsDisk(w) == [p \in {e.path : e \in w} |-> (CHOOSE e \in w : e.path = p).kind]

DiskNames == { Last(u.path) : u \in Universe }

\* names of the immediate entries of directory dir
EntriesOf(disk, dir) ==
    { Last(p) : p \in { q \in DOMAIN disk : Len(q) = Len(dir) + 1 /\ Front(q) = dir } }

-----------------------------------------------------------------------------
(* TreeScanner *)

\* String.prototype.localeCompare under the default collation: position of a
\* name in collation order; canonically equivalent names share a position.
CollationRank(name) ==
    IF name = <<>> THEN 0
    ELSE CASE name[1] = "acme"                 -> 1
           [] name[1] = "agents"               -> 2
           [] name[1] = "bot"                  -> 3
           [] name[1] = "docs"                 -> 4
           [] name[1] = "feature.md"           -> 5
           [] name[1] = "features"             -> 6
           [] name[1] = "login"                -> 7
           [] name[1] = "logs"                 -> 8
           [] name[1] = "notes.txt"            -> 9
           [] name[1] = "overview.md"          -> 10
           [] name[1] = "projects"             -> 11
           [] name[1] = "readme.txt"           -> 12
           [] name[1] = "resume(NFC)"          -> 13
           [] name[1] = "resume(NFD)"          -> 13
           [] name[1] = "status.md"            -> 14
           [] name[1] = "task-instructions.md" -> 15
           [] name[1] = "tmp"                  -> 16
           [] name[1] = "work"                 -> 17
           [] name[1] = "Zed"                  -> 18

localeCompare(a, b) ==
    IF CollationRank(a) < CollationRank(b) THEN -1
    ELSE IF CollationRank(a) > CollationRank(b) THEN 1
    ELSE 0

\* a comparator that puts directories first and compares no names
compareChildren_TypeOnly(a, b) ==
    IF a.type # b.type
    THEN (IF a.type = DIRECTORY THEN -1 ELSE 1)
    ELSE 0

\* the comparator handed to structure.children.sort
compareChildren(a, b) ==
    IF a.type # b.type
    THEN (IF a.type = DIRECTORY THEN -1 ELSE 1)
    ELSE localeCompare(a.name, b.name)

\* Array.prototype.sort is stable: x goes behind every element it does not precede
RECURSIVE InsertSorted(_, _)
InsertSorted(s, x) ==
    IF s = <<>> THEN <<x>>
    ELSE IF compareChildren(x, Last(s)) < 0
         THEN Append(InsertSorted(Front(s), x), Last(s))
         ELSE Append(s, x)

\* the sort forgotten: children stay in listing order
SortChildren_ListingOrder(s) == s

RECURSIVE SortChildren(_)
SortChildren(s) ==
    IF s = <<>> THEN <<>>
    ELSE InsertSorted(SortChildren(Front(s)), Last(s))

\* the structure object scanDirectory starts from
NewStructure(handle, name, path) ==
    [name     |-> name,
     type     |-> DIRECTORY,
     path     |-> IF path # <<>> THEN path ELSE name,
     children |-> <<>>,
     handle   |-> handle]

FileNode(handle, name, entryPath) ==
    [name |-> name, type |-> FILE, path |-> entryPath, handle |-> handle]

\* activation record of one scanDirectory call; todo holds the entries the
\* directory iterator has not yielded yet
NewFrame(handle, name, path) ==
    [structure |-> NewStructure(handle, name, path),
     path      |-> path,
     todo      |-> EntriesOf(fs, handle)]

\* skips that hands isAllowedEntry the entry's own path
skips_OwnPath(entryName, entryKind, path, entryPath) ==
    ~isAllowedEntry(entryName, entryKind, entryPath)

\* skips that filters files only and descends into every directory
skips_FilesOnly(entryName, entryKind, path, entryPath) ==
    entryKind = FILE /\ ~isAllowedEntry(entryName, entryKind, path)

\* skips that filters the six levels of the schema only and lets every entry
\* below them through
skips_SchemaLevelsOnly(entryName, entryKind, path, entryPath) ==
    Len(getPathSegments(path)) < 6 /\ ~isAllowedEntry(entryName, entryKind, path)

\* Apply path-based filtering: if (!isAllowedEntry(entry.name, entry.kind, path)) continue
skips(entryName, entryKind, path, entryPath) ==
    ~isAllowedEntry(entryName, entryKind, path)

InitScan ==
    /\ \E w \in Workspaces(MaxEntries) : fs = AsDisk(w)
    /\ stack = <<>>
    /\ failed = {}
    /\ listed = {}
    /\ result = NoResult
    /\ ClassifierIdle
    /\ StatusIdle
    /\ FrontendIdle

Top == stack[Len(stack)]

\* refresh: scanDirectory(currentDirHandle), path defaulting to ''
ScanRoot ==
    /\ stack = <<>>
    /\ result = NoResult
    /\ stack' = <<NewFrame(<<>>, Str(RootName), <<>>)>>
    /\ listed' = listed \cup {<<>>}
    /\ UNCHANGED <<fs, failed, result, classifierVars, statusVars, frontendVars>>

\* the iterator yields entry e, which isAllowedEntry rejects: continue
SkipEntry(e) ==
    /\ stack # <<>>
    /\ e \in Top.todo
    /\ LET handle == Append(Top.structure.handle, e)
           entryPath == entryPathOf(Top.path, Str(e))
       IN  /\ skips(Str(e), fs[handle], Top.path, entryPath)
           /\ stack' = [stack EXCEPT ![Len(stack)].todo = @ \ {e}]
    /\ UNCHANGED <<fs, failed, listed, result, classifierVars, statusVars, frontendVars>>

\* the iterator yields an allowed directory: await scanDirectory(entry, entryPath)
EnterDirectory(e) ==
    /\ stack # <<>>
    /\ e \in Top.todo
    /\ LET handle == Append(Top.structure.handle, e)
           entryPath == entryPathOf(Top.path, Str(e))
       IN  /\ ~skips(Str(e), fs[handle], Top.path, entryPath)
           /\ fs[handle] = DIRECTORY
           /\ stack' = Append([stack EXCEPT ![Len(stack)].todo = @ \ {e}],
                              NewFrame(handle, Str(e), entryPath))
           /\ listed' = listed \cup {handle}
    /\ UNCHANGED <<fs, failed, result, classifierVars, statusVars, frontendVars>>

\* the iterator yields an allowed file: push a leaf node
AddFile(e) ==
    /\ stack # <<>>
    /\ e \in Top.todo
    /\ LET handle == Append(Top.structure.handle, e)
           entryPath == entryPathOf(Top.path, Str(e))
       IN  /\ ~skips(Str(e), fs[handle], Top.path, entryPath)
           /\ fs[handle] = FILE
           /\ stack' = [stack EXCEPT ![Len(stack)] =
                          [@ EXCEPT !.todo = @ \ {e},
                                    !.structure.children =
                                        Append(@, FileNode(handle, Str(e), entryPath))]]
    /\ UNCHANGED <<fs, failed, listed, result, classifierVars, statusVars, frontendVars>>

\* sort the children and return the structure: to the awaiting parent call,
\* which pushes it onto its own children, or to the caller of the root scan
ReturnSorted ==
    LET node == [Top.structure EXCEPT !.children = SortChildren(@)]
    IN  IF Len(stack) = 1
        THEN /\ result' = node
             /\ stack' = <<>>
        ELSE /\ stack' = [Front(stack) EXCEPT ![Len(stack) - 1].structure.children =
                                                  Append(@, node)]
             /\ UNCHANGED result

\* the iterator is exhausted
ListingEnds ==
    /\ stack # <<>>
    /\ Top.todo = {}
    /\ ReturnSorted
    /\ UNCHANGED <<fs, failed, listed, classifierVars, statusVars, frontendVars>>

Rejected == [type |-> "rejected"]

\* ListingFails without the try/catch: the rejection runs up through every
\* awaiting call and the root scan rejects
ListingFails_Uncaught ==
    /\ stack # <<>>
    /\ Cardinality(failed) < MaxFailures
    /\ failed' = failed \cup {[handle |-> Top.structure.handle,
                               collected |-> Top.structure.children]}
    /\ stack' = <<>>
    /\ result' = Rejected
    /\ UNCHANGED <<fs, listed, classifierVars, statusVars, frontendVars>>

\* the iterator throws (on creation or on any step): caught, warned about,
\* and the scan of this directory ends with the children collected so far
ListingFails ==
    /\ stack # <<>>
    /\ Cardinality(failed) < MaxFailures
    /\ failed' = failed \cup {[handle |-> Top.structure.handle,
                               collected |-> Top.structure.children]}
    /\ ReturnSorted
    /\ UNCHANGED <<fs, listed, classifierVars, statusVars, frontendVars>>

Next ==
    \/ ScanRoot
    \/ \E e \in DiskNames :
          \/ SkipEntry(e)
          \/ EnterDirectory(e)
          \/ AddFile(e)
    \/ ListingEnds
    \/ ListingFails

Spec == InitScan /\ [][Next]_vars

-----------------------------------------------------------------------------
(* Trees returned by scanDirectory.  Every node a nested call returns ends *)
(* up in the tree the root call returns, so the properties of returned     *)
(* trees are stated on that tree, and those of a single listing also on    *)
(* the structure the innermost pending call is filling.                    *)

RECURSIVE Subtree(_)
\* every node of the tree under node n, n included
Subtree(n) ==
    {n} \cup
    (IF n.type = DIRECTORY
     THEN UNION { Subtree(n.children[i]) : i \in 1..Len(n.children) }
     ELSE {})

ChildrenOf(n) == { n.children[i] : i \in 1..Len(n.children) }

Returned == result # NoResult /\ result # Rejected

\* the directory nodes of the returned tree
ReturnedDirNodes ==
    IF Returned THEN { n \in Subtree(result) : n.type = DIRECTORY } ELSE {}

\* ... and the structure being filled by the innermost pending call
ListedDirNodes ==
    ReturnedDirNodes \cup (IF stack # <<>> THEN {Top.structure} ELSE {})

\* the path argument the scanDirectory call that built directory node n ran with
ScanPathOf(n) == IF n.handle = <<>> THEN <<>> ELSE n.path

RECURSIVE PathString(_)
\* the root-relative path string of the entry with handle h
PathString(h) ==
    IF h = <<>> THEN <<>> ELSE entryPathOf(PathString(Front(h)), Str(Last(h)))

\* the schema lets entry h through under its own parent directory
AllowedHere(h) == isAllowedEntry(Str(Last(h)), fs[h], PathString(Front(h)))

\* ... and lets every ancestor of h through as well
AllowedChain(h) == \A k \in 1..Len(h) : AllowedHere(SubSeq(h, 1, k))

\* C2: every node other than the root was accepted by isAllowedEntry under its
\* parent directory's path; an entry isAllowedEntry rejects is in no tree, no
\* rejected directory is ever listed, and rejecting raises no error.
C2_OnlyAllowedEntries ==
    /\ \A p \in ListedDirNodes : \A c \in ChildrenOf(p) :
          /\ isAllowedEntry(c.name, c.type, ScanPathOf(p))
          /\ c.handle \in DOMAIN fs /\ AllowedHere(c.handle)
    /\ \A h \in listed : h = <<>> \/ (h \in DOMAIN fs /\ AllowedHere(h))
    /\ result # Rejected
    /\ \A f \in failed : f.handle \in listed

C2_Witness ==
    /\ Returned
    /\ failed = {}
    /\ {<<"projects", "acme", "readme.txt">>, <<"projects", "acme", "overview.md">>,
        <<"docs", "feature.md">>} \subseteq DOMAIN fs
    /\ \E n \in Subtree(result) : n.handle = <<"projects", "acme", "overview.md">>

\* C3: when no listing fails, the returned tree holds exactly the entries on
\* disk that the schema allows and whose ancestors are all allowed: directories
\* as directory nodes under their parent's node, files as leaf nodes.
C3_AllAllowedEntriesPresent ==
    (Returned /\ failed = {}) =>
        /\ { n.handle : n \in Subtree(result) } =
               { h \in DOMAIN fs : AllowedChain(h) } \cup {<<>>}
        /\ \A p \in Subtree(result) :
              /\ p.handle # <<>> => p.type = fs[p.handle] /\ p.name = Str(Last(p.handle))
              /\ p.type = FILE => "children" \notin DOMAIN p
              /\ p.type = DIRECTORY =>
                    \A c \in ChildrenOf(p) : c.handle # <<>> /\ Front(c.handle) = p.handle

C3_Witness ==
    /\ Returned
    /\ failed = {}
    /\ <<"projects", "acme", "readme.txt">> \in DOMAIN fs
    /\ \E n \in Subtree(result) :
          /\ n.handle = <<"projects", "acme", "features", "login", "feature.md">>
          /\ n.type = FILE
    /\ \E n \in Subtree(result) : n.handle = <<"projects", "acme", "overview.md">>

\* handles of the entries of directory h that the schema allows there
AllowedEntries(h) ==
    { Append(h, e) : e \in { x \in EntriesOf(fs, h) : AllowedHere(Append(h, x)) } }

\* C4: a failing listing never makes the scan reject.  The failing directory's
\* node is returned with exactly the children collected before the failure,
\* every returned directory whose own listing did not fail holds all of its
\* allowed entries, and the root call returns a tree.
C4_FailureIsLocal ==
    /\ result # Rejected
    /\ (stack = <<>> /\ listed # {}) => Returned /\ result.type = DIRECTORY
    /\ \A n \in ReturnedDirNodes :
          /\ \A f \in failed :
                n.handle = f.handle =>
                    ChildrenOf(n) = { f.collected[i] : i \in 1..Len(f.collected) }
          /\ (\A f \in failed : f.handle # n.handle) =>
                { c.handle : c \in ChildrenOf(n) } = AllowedEntries(n.handle)
    /\ Returned => \A f \in failed : \E n \in ReturnedDirNodes : n.handle = f.handle

C4_Witness ==
    /\ Returned
    /\ \E f \in failed :
          /\ f.handle = <<"features", "resume(NFC)">>
          /\ Len(f.collected) = 1
          /\ Cardinality(AllowedEntries(f.handle)) = 2
    /\ \E n \in Subtree(result) : n.handle = <<"features", "resume(NFC)">>
    /\ \E n \in Subtree(result) : n.handle = <<"features", "Zed">>
    /\ \E n \in Subtree(result) : n.handle = <<"projects", "acme">>

IsOrdered(children) ==
    \A i, j \in 1..Len(children) :
        i < j => /\ children[i].type = FILE => children[j].type = FILE
                 /\ children[i].type = children[j].type =>
                        CollationRank(children[i].name) <= CollationRank(children[j].name)

\* C5: in every returned tree, also after a listing failure, each directory
\* node's children are ordered directories first and, within a kind, by name
\* ascending in collation order; sorting them again changes nothing.
C5_ChildrenSorted ==
    \A n \in ReturnedDirNodes :
        /\ IsOrdered(n.children)
        /\ SortChildren(n.children) = n.children

C5_Witness ==
    /\ Returned
    /\ \E f \in failed :
          /\ Len(f.collected) >= 2
          /\ ~IsOrdered(f.collected)
          /\ \E n \in Subtree(result) : n.handle = f.handle /\ Len(n.children) >= 2
    /\ \E n \in Subtree(result) :
          /\ n.type = DIRECTORY
          /\ \E i, j \in 1..Len(n.children) : n.children[i].type # n.children[j].type

\* the structure of the call listing the workspace root, while it is the
\* innermost pending call and once it has returned
RootStructures ==
    (IF Returned THEN {result} ELSE {}) \cup
    (IF Len(stack) = 1 THEN {Top.structure} ELSE {})

\* C6: at parent path '' isAllowedEntry accepts exactly the directories named
\* projects and features, so the root node has at most these two children and
\* no file child.
C6_RootAdmitsTwoDirectories ==
    \A r \in RootStructures :
        /\ r.handle = <<>>
        /\ \A e \in DiskNames \cup EntryNames : \A k \in Kinds :
              isAllowedEntry(Str(e), k, ScanPathOf(r)) <=>
                  (k = DIRECTORY /\ e \in {"projects", "features"})
        /\ Len(r.children) <= 2
        /\ \A c \in ChildrenOf(r) :
              c.type = DIRECTORY /\ c.name \in {Str("projects"), Str("features")}

C6_Witness ==
    /\ Returned
    /\ {<<"projects">>, <<"features">>, <<"notes.txt">>, <<"docs">>} \subseteq DOMAIN fs
    /\ Len(result.children) = 2

\* handle of an agent folder: features/*/agents/* or projects/*/features/*/agents/*
IsAgentFolderHandle(h) ==
    \/ Len(h) = 4 /\ h[1] = "features" /\ h[3] = "agents"
    \/ Len(h) = 6 /\ h[1] = "projects" /\ h[3] = "features" /\ h[5] = "agents"

\* C7: inside an agent folder isAllowedEntry rejects every directory and accepts
\* only the files task-instructions.md and status.md, so an agent-folder node
\* never has a directory child.
C7_AgentFolderHoldsFilesOnly ==
    \A n \in ListedDirNodes :
        IsAgentFolderHandle(n.handle) =>
            /\ \A e \in DiskNames \cup EntryNames : \A k \in Kinds :
                  isAllowedEntry(Str(e), k, ScanPathOf(n)) <=>
                      (k = FILE /\ e \in {"task-instructions.md", "status.md"})
            /\ \A c \in ChildrenOf(n) : c.type = FILE

C7_Witness ==
    /\ Returned
    /\ <<"features", "resume(NFC)", "agents", "bot", "tmp">> \in DOMAIN fs
    /\ \E n \in Subtree(result) :
          /\ n.handle = <<"features", "resume(NFC)", "agents", "bot">>
          /\ Len(n.children) = 2

\* C8 as stated: the root node's path is the empty string and every child's
\* path is parent.path + '/' + child.name, or child.name under an empty
\* parent path.
C8_RootPathEmpty ==
    Returned =>
        /\ result.path = <<>>
        /\ \A p \in ReturnedDirNodes : \A c \in ChildrenOf(p) :
              c.path = IF p.path = <<>> THEN c.name ELSE Slash(p.path, c.name)

\* C8 amended: the root node's path is the name of the workspace directory
\* handle; a child of the root has its own name as path; every other child's
\* path is parent.path + '/' + child.name.
C8_PathsRootRelative ==
    Returned =>
        /\ result.path = Str(RootName)
        /\ \A p \in ReturnedDirNodes : \A c \in ChildrenOf(p) :
              c.path = IF p.handle = <<>> THEN c.name ELSE Slash(p.path, c.name)

C8_Witness ==
    /\ Returned
    /\ \E n \in Subtree(result) :
          /\ n.handle = <<"features", "resume(NFC)", "feature.md">>
          /\ n.path = <<"features", SEP, "resume(NFC)", SEP, "feature.md">>

-----------------------------------------------------------------------------
(* StatusExtractor.  Text is a sequence of characters (UTF-16 code units). *)

SampleLength == 500

LowerCase == <<"a", "b", "c", "d", "e", "f", "g", "h", "i", "j", "k", "l", "m", "n", "o", "p", "q", "r", "s", "t", "u", "v", "w", "x", "y", "z">>
UpperCase == <<"A", "B", "C", "D", "E", "F", "G", "H", "I", "J", "K", "L", "M", "N", "O", "P", "Q", "R", "S", "T", "U", "V", "W", "X", "Y", "Z">>
Digits == <<"0", "1", "2", "3", "4", "5", "6", "7", "8", "9">>

Range(s) == { s[i] : i \in 1..Len(s) }

\* \w of a regular expression without the u flag
WordChars == Range(LowerCase) \cup Range(UpperCase) \cup Range(Digits) \cup {"_"}

\* Canonicalize of the i flag: ASCII letters compare by their upper case
UpperOf == [c \in Range(LowerCase) |-> UpperCase[CHOOSE i \in 1..Len(LowerCase) : LowerCase[i] = c]]

Canonicalize(c) == IF c \in DOMAIN UpperOf THEN UpperOf[c] ELSE c

IsWordAt(s, i) == i >= 1 /\ i <= Len(s) /\ s[i] \in WordChars

\* \b between the characters at positions p - 1 and p
WordBoundary(s, p) == IsWordAt(s, p - 1) # IsWordAt(s, p)

\* /\bword\b/i.test(s)
RegexTest(word, s) ==
    \E i \in 1..(Len(s) - Len(word) + 1) :
        /\ \A j \in 1..Len(word) : Canonicalize(s[i + j - 1]) = Canonicalize(word[j])
        /\ WordBoundary(s, i)
        /\ WordBoundary(s, i + Len(word))

W_completed == <<"c", "o", "m", "p", "l", "e", "t", "e", "d">>
W_done == <<"d", "o", "n", "e">>
W_finished == <<"f", "i", "n", "i", "s", "h", "e", "d">>
W_blocked == <<"b", "l", "o", "c", "k", "e", "d">>
W_waiting == <<"w", "a", "i", "t", "i", "n", "g">>
W_stuck == <<"s", "t", "u", "c", "k">>
W_in_progress == <<"i", "n", " ", "p", "r", "o", "g", "r", "e", "s", "s">>
W_working == <<"w", "o", "r", "k", "i", "n", "g">>
W_started == <<"s", "t", "a", "r", "t", "e", "d">>

\* STATUS_PATTERNS with the in-progress entry ahead of the blocked entry
STATUS_PATTERNS_BlockedLast == <<
    [status |-> "completed",   patterns |-> <<W_completed, W_done, W_finished>>],
    [status |-> "in-progress", patterns |-> <<W_in_progress, W_working, W_started>>],
    [status |-> "blocked",     patterns |-> <<W_blocked, W_waiting, W_stuck>>] >>

STATUS_PATTERNS == <<
    [status |-> "completed",   patterns |-> <<W_completed, W_done, W_finished>>],
    [status |-> "blocked",     patterns |-> <<W_blocked, W_waiting, W_stuck>>],
    [status |-> "in-progress", patterns |-> <<W_in_progress, W_working, W_started>>] >>

\* String.prototype.substring(from, to) for 0 <= from <= to
substring(s, from, to) ==
    SubSeq(s, from + 1, IF to < Len(s) THEN to ELSE Len(s))

\* the sample taken from the whole text
sampleOf_WholeText(text) == text

\* Only analyze first 500 characters for performance
sampleOf(text) == substring(text, 0, SampleLength)

RECURSIVE firstMatch(_, _)
\* for (const { status, patterns } of STATUS_PATTERNS) from entry k on
firstMatch(sample, k) ==
    IF k > Len(STATUS_PATTERNS) THEN "not-started"
    ELSE IF \E p \in 1..Len(STATUS_PATTERNS[k].patterns) :
                RegexTest(STATUS_PATTERNS[k].patterns[p], sample)
         THEN STATUS_PATTERNS[k].status
         ELSE firstMatch(sample, k + 1)

parseStatus(text) == firstMatch(sampleOf(text), 1)

\* the status slugs as strings of characters
StatusSlug ==
    [s \in {"completed", "blocked", "in-progress", "not-started"} |->
        CASE s = "completed"   -> W_completed
          [] s = "blocked"     -> W_blocked
          [] s = "in-progress" -> <<"i", "n", "-", "p", "r", "o", "g", "r", "e", "s", "s">>
          [] s = "not-started" -> <<"n", "o", "t", "-", "s", "t", "a", "r", "t", "e", "d">>]

\* status.replace(/-/g, ' ')
getStatusText(slug) == [i \in 1..Len(slug) |-> IF slug[i] = "-" THEN " " ELSE slug[i]]

-----------------------------------------------------------------------------
(* Status files: a status.md is written piece by piece and its badge is    *)
(* parsed after each piece; a long file starts with a run of dots.         *)

MaxPieces == 3
PadLength == 495

T_StatusColon == <<"S", "t", "a", "t", "u", "s", ":", " ">>
T_Completed == <<"C", "o", "m", "p", "l", "e", "t", "e", "d">>
T_ButBlocked == <<",", " ", "b", "u", "t", " ", "b", "l", "o", "c", "k", "e", "d", " ", "i", "n", "i", "t", "i", "a", "l", "l", "y">>
T_InReview == <<" ", "i", "n", " ", "r", "e", "v", "i", "e", "w">>
T_Space == <<" ">>
T_Underscore == <<"_">>
T_un == <<"u", "n">>
T_s == <<"s">>

Pieces == {T_StatusColon, T_Completed, T_ButBlocked, T_InReview, T_Space, T_Underscore,
           T_un, T_s, W_done, W_finished, W_waiting, W_stuck, W_in_progress, W_working,
           W_started}

\* pieces typed behind the leading run of dots of a long file
TailPieces == {T_StatusColon, T_Space, T_s, W_done, W_stuck, W_working}

Padding == [i \in 1..PadLength |-> "."]

IsPadded(text) == Len(text) >= PadLength /\ SubSeq(text, 1, PadLength) = Padding

InitStatus ==
    /\ content = <<>>
    /\ typed = 0
    /\ status = parseStatus(<<>>)
    /\ variant = NoVariant
    /\ variantStatus = NoStatus
    /\ ClassifierIdle
    /\ ScannerIdle
    /\ FrontendIdle

\* a piece is appended to the file and the badge is parsed again
TypePiece(piece) ==
    /\ typed < MaxPieces
    /\ piece \in (IF IsPadded(content) THEN TailPieces ELSE Pieces)
    /\ content' = content \o piece
    /\ typed' = typed + 1
    /\ status' = parseStatus(content')
    /\ UNCHANGED <<variant, variantStatus, classifierVars, scannerVars, frontendVars>>

\* the file starts with a long run of dots
TypePadding ==
    /\ content = <<>>
    /\ content' = Padding
    /\ typed' = typed + 1
    /\ status' = parseStatus(content')
    /\ UNCHANGED <<variant, variantStatus, classifierVars, scannerVars, frontendVars>>

\* the file is started with the badge text of status s
TypeStatusText(s) ==
    /\ content = <<>>
    /\ content' = getStatusText(StatusSlug[s])
    /\ typed' = typed + 1
    /\ status' = parseStatus(content')
    /\ UNCHANGED <<variant, variantStatus, classifierVars, scannerVars, frontendVars>>

\* a second file that shares the examined sample with content and goes on
\* differently is parsed
ParseVariant(tail) ==
    /\ Len(content) >= SampleLength
    /\ variant' = substring(content, 0, SampleLength) \o tail
    /\ variantStatus' = parseStatus(variant')
    /\ UNCHANGED <<content, typed, status, classifierVars, scannerVars, frontendVars>>

NextStatus ==
    \/ \E piece \in Pieces : TypePiece(piece)
    \/ TypePadding
    \/ \E s \in DOMAIN StatusSlug : TypeStatusText(s)
    \/ \E tail \in TailPieces \cup {<<>>} : ParseVariant(tail)

SpecStatus == InitStatus /\ [][NextStatus]_vars

HasAny(words, sample) == \E w \in words : RegexTest(w, sample)

\* C9: parseStatus returns the first status, in the order completed, blocked,
\* in-progress, one of whose keywords matches the sample, wherever the keywords
\* stand in the text; with no match, and for the empty string, not-started.
C9_FirstStatusInPriorityOrder ==
    LET sample == substring(content, 0, SampleLength)
    IN  /\ status =
              IF HasAny({W_completed, W_done, W_finished}, sample) THEN "completed"
              ELSE IF HasAny({W_blocked, W_waiting, W_stuck}, sample) THEN "blocked"
              ELSE IF HasAny({W_in_progress, W_working, W_started}, sample) THEN "in-progress"
              ELSE "not-started"
        /\ content = T_StatusColon \o T_Completed \o T_ButBlocked => status = "completed"
        /\ content = W_stuck \o T_InReview => status = "blocked"
        /\ content = W_working \o T_Space \o W_stuck => status = "blocked"
        /\ content = <<>> => status = "not-started"

C9_Witness ==
    /\ content = W_working \o T_Space \o W_stuck
    /\ status = "blocked"

\* C10: two texts that agree on their first 500 characters get the same
\* status; a keyword lying wholly beyond character 500 changes nothing.
C10_OnlySampleMatters ==
    (/\ variant # NoVariant
     /\ substring(variant, 0, SampleLength) = substring(content, 0, SampleLength))
        => variantStatus = status

C10_Witness ==
    /\ Len(content) > SampleLength
    /\ RegexTest(W_done, content)
    /\ ~RegexTest(W_done, substring(content, 0, SampleLength))
    /\ variant # NoVariant
    /\ variant # content
    /\ substring(variant, 0, SampleLength) = substring(content, 0, SampleLength)
    /\ variantStatus = status
    /\ status = "not-started"

-----------------------------------------------------------------------------
(* The schema table of the specification, row by row.  "*" stands for any  *)
(* single directory name.                                                  *)

ANY == "*"

SchemaRows == <<
    [at |-> <<>>,                                  dirs |-> {"projects", "features"}, files |-> {}],
    [at |-> <<"projects">>,                        dirs |-> {ANY},                    files |-> {}],
    [at |-> <<"projects", ANY>>,                   dirs |-> {"features"},             files |-> {"overview.md"}],
    [at |-> <<"projects", ANY, "features">>,       dirs |-> {ANY},                    files |-> {}],
    [at |-> <<"features">>,                        dirs |-> {ANY},                    files |-> {}],
    [at |-> <<"features", ANY>>,                   dirs |-> {"agents"},               files |-> {"feature.md"}],
    [at |-> <<"projects", ANY, "features", ANY>>,  dirs |-> {"agents"},               files |-> {"feature.md"}],
    [at |-> <<"features", ANY, "agents">>,         dirs |-> {ANY},                    files |-> {}],
    [at |-> <<"projects", ANY, "features", ANY, "agents">>,
                                                   dirs |-> {ANY},                    files |-> {}],
    [at |-> <<"features", ANY, "agents", ANY>>,    dirs |-> {},
                                                   files |-> {"task-instructions.md", "status.md"}],
    [at |-> <<"projects", ANY, "features", ANY, "agents", ANY>>,
                                                   dirs |-> {},
                                                   files |-> {"task-instructions.md", "status.md"}] >>

RowAt(row, segs) ==
    /\ Len(row.at) = Len(segs)
    /\ \A i \in 1..Len(segs) : row.at[i] = ANY \/ row.at[i] = segs[i]

SchemaAllows(name, kind, segs) ==
    \E r \in 1..Len(SchemaRows) :
        /\ RowAt(SchemaRows[r], segs)
        /\ LET allowed == IF kind = DIRECTORY THEN SchemaRows[r].dirs ELSE SchemaRows[r].files
           IN  ANY \in allowed \/ name \in allowed

\* C1: for every entry name, entry kind and parent path, isAllowedEntry returns
\* true exactly when a row of the schema table permits the entry under that
\* parent path, and false otherwise (also when no row matches the path).
C1_ClassifierMatchesSchema ==
    /\ DOMAIN cVerdict = EntryNames \X Kinds
    /\ \A e \in EntryNames \X Kinds : cVerdict[e] = SchemaAllows(e[1], e[2], cSegs)

C1_Witness ==
    /\ cSegs = <<"projects", "acme", "features", "acme", "agents", "acme">>
    /\ cVerdict[<<"status.md", FILE>>]
    /\ ~cVerdict[<<"agents", DIRECTORY>>]

-----------------------------------------------------------------------------
(* JiraLinker (src/js/jira.js): the Jira link of a feature.md.  Text is a   *)
(* sequence of characters; a line break is the character "\n".             *)

NL == "\n"

\* \s of a regular expression and the characters String.prototype.trim strips
WhiteSpace == {" ", "\t", "\n", "\r"}

\* the literal head of JIRA_LINK_PATTERN: \*\*Jira\*\*:
JiraLabel == <<"*", "*", "J", "i", "r", "a", "*", "*", ":">>

RECURSIVE SkipWhile(_, _, _)
\* a greedy run of characters of cls from position k on; the position after it
SkipWhile(s, k, cls) ==
    IF k <= Len(s) /\ s[k] \in cls THEN SkipWhile(s, k + 1, cls) ELSE k

\* \s* matched against nothing
skipSpace_None(s, k) == k

\* \s* of JIRA_LINK_PATTERN
skipSpace(s, k) == SkipWhile(s, k, WhiteSpace)

\* JIRA_LINK_PATTERN matched with its first character at position i: the
\* text captured by ([A-Z]+-\d+), NoText when there is no match at i
MatchAt(s, i) ==
    LET a == i + Len(JiraLabel)
        b == skipSpace(s, a)
        c == SkipWhile(s, b + 1, Range(UpperCase))
        d == SkipWhile(s, c + 1, Range(Digits))
    IN  IF /\ a - 1 <= Len(s)
           /\ SubSeq(s, i, a - 1) = JiraLabel
           /\ b <= Len(s)
           /\ s[b] = "["
           /\ c > b + 1
           /\ c <= Len(s)
           /\ s[c] = "-"
           /\ d > c + 1
           /\ d <= Len(s)
           /\ s[d] = "]"
        THEN SubSeq(s, b + 1, d - 1)
        ELSE NoText

RECURSIVE matchFrom(_, _)
\* String.prototype.match with a non-global pattern: the leftmost match
matchFrom(s, i) ==
    IF i > Len(s) THEN NoText
    ELSE IF MatchAt(s, i) # NoText THEN MatchAt(s, i)
    ELSE matchFrom(s, i + 1)

\* the issue key if found, NoText (null) otherwise
hasJiraLink(text) == matchFrom(text, 1)

RECURSIVE splitLines(_)
\* content.split('\n')
splitLines(s) ==
    IF \A k \in 1..Len(s) : s[k] # NL THEN <<s>>
    ELSE LET k == CHOOSE j \in 1..Len(s) : s[j] = NL /\ \A m \in 1..(j - 1) : s[m] # NL
         IN  <<SubSeq(s, 1, k - 1)>> \o splitLines(SubSeq(s, k + 1, Len(s)))

RECURSIVE joinLines(_)
\* lines.join('\n')
joinLines(lines) ==
    IF Len(lines) = 0 THEN <<>>
    ELSE IF Len(lines) = 1 THEN lines[1]
    ELSE lines[1] \o <<NL>> \o joinLines(Tail(lines))

startsWith(line, prefix) ==
    Len(line) >= Len(prefix) /\ SubSeq(line, 1, Len(prefix)) = prefix

RECURSIVE trim(_)
trim(line) ==
    IF line = <<>> THEN <<>>
    ELSE IF line[1] \in WhiteSpace THEN trim(Tail(line))
    ELSE IF line[Len(line)] \in WhiteSpace THEN trim(SubSeq(line, 1, Len(line) - 1))
    ELSE line

HeadingMarker == <<"#", " ">>

\* the index right after the heading, blank lines kept below the link
skipBlankLines_None(lines, j) == j

RECURSIVE skipBlankLines(_, _)
\* while (insertIndex < lines.length && lines[insertIndex].trim() === '') insertIndex++
\* (j is the 0-based JavaScript index)
skipBlankLines(lines, j) ==
    IF j < Len(lines) /\ trim(lines[j + 1]) = <<>>
    THEN skipBlankLines(lines, j + 1)
    ELSE j

RECURSIVE findInsertIndex(_, _)
\* the for loop over the lines, from the 0-based index i on; insertIndex
\* keeps its initial value 1 when no line starts with '# '
findInsertIndex(lines, i) ==
    IF i >= Len(lines) THEN 1
    ELSE IF startsWith(lines[i + 1], HeadingMarker) THEN skipBlankLines(lines, i + 1)
    ELSE findInsertIndex(lines, i + 1)

insertIndexOf(lines) == findInsertIndex(lines, 0)

\* the line at start is replaced by the items
splice_Replace(lines, start, items) ==
    LET at == IF start > Len(lines) THEN Len(lines) ELSE start
    IN  SubSeq(lines, 1, at) \o items \o SubSeq(lines, at + 2, Len(lines))

\* lines.splice(start, 0, ...items): the array after the call
splice(lines, start, items) ==
    LET at == IF start > Len(lines) THEN Len(lines) ELSE start
    IN  SubSeq(lines, 1, at) \o items \o SubSeq(lines, at + 1, Len(lines))

-----------------------------------------------------------------------------
(* Feature files: a feature.md is written piece by piece and opened, then  *)
(* the link line the ticketing backend returned is inserted into it.       *)

MaxLinkPieces == 4

L_Title == <<"#", " ", "T", "i", "t", "l", "e">>
L_Body == <<"B", "o", "d", "y">>
L_Hash == <<"#">>
L_Space == <<" ">>
L_OldKey == <<"[", "O", "L", "D", "-", "1", "]">>

LinkPieces == {L_Title, <<NL>>, L_Body, L_Hash, L_Space, JiraLabel, L_OldKey}

LinkKeys == {<<"A", "B", "-", "1", "2">>, <<"C", "-", "7">>}

LinkUrl == <<"u">>

\* jira_link_markdown of the backend's response for the story key
linkLineOf(key) ==
    JiraLabel \o <<" ", "[">> \o key \o <<"]", "(">> \o LinkUrl \o <<")">>

InitJira ==
    /\ currentFeatureContent = <<>>
    /\ featureFile = NoText
    /\ linkTyped = 0
    /\ contentBefore = NoText
    /\ insertedLink = NoText
    /\ insertIndex = -1
    /\ ViewerIdle
    /\ SessionIdle
    /\ ClassifierIdle
    /\ ScannerIdle
    /\ StatusIdle
    /\ MutatorIdle
    /\ CreateIdle
    /\ RefreshIdle
    /\ DraftIdle
    /\ BackendIdle

\* the feature.md grows by a piece and is opened again
setCurrentFeature(piece) ==
    /\ featureFile = NoText
    /\ linkTyped < MaxLinkPieces
    /\ currentFeatureContent' = currentFeatureContent \o piece
    /\ linkTyped' = linkTyped + 1
    /\ UNCHANGED <<featureFile, contentBefore, insertedLink, insertIndex, notJiraVars>>

\* Done in the success dialog.  The dialog is shown once per ticket, and the
\* Create Jira button is disabled for a feature.md that holds a link.
updateFeatureWithJiraLink(jiraLinkMarkdown) ==
    /\ featureFile = NoText
    /\ currentFeatureContent # NoText
    /\ currentFeatureContent # <<>>
    /\ LET lines == splitLines(currentFeatureContent)
           at == insertIndexOf(lines)
           newContent == joinLines(splice(lines, at, <<<<>>, jiraLinkMarkdown>>))
       IN  /\ featureFile' = newContent
           /\ contentBefore' = currentFeatureContent
           /\ currentFeatureContent' = newContent
           /\ insertedLink' = jiraLinkMarkdown
           /\ insertIndex' = at
    /\ UNCHANGED <<linkTyped, notJiraVars>>

NextJira ==
    \/ \E piece \in LinkPieces : setCurrentFeature(piece)
    \/ \E key \in LinkKeys : updateFeatureWithJiraLink(linkLineOf(key))

SpecJira == InitJira /\ [][NextJira]_vars

IsBlankLine(line) == \A k \in 1..Len(line) : line[k] \in WhiteSpace

\* 0-based indices of the lines that start with '# '
HeadingLines(lines) ==
    { i \in 0..(Len(lines) - 1) : startsWith(lines[i + 1], HeadingMarker) }

\* the insertion index as the rule words it
RuleIndex(lines) ==
    IF HeadingLines(lines) = {} THEN 1
    ELSE LET h == CHOOSE i \in HeadingLines(lines) : \A j \in HeadingLines(lines) : i <= j
         IN  CHOOSE j \in (h + 1)..Len(lines) :
                 /\ \A k \in (h + 1)..(j - 1) : IsBlankLine(lines[k + 1])
                 /\ j = Len(lines) \/ ~IsBlankLine(lines[j + 1])

TitleBlankBody == L_Title \o <<NL, NL>> \o L_Body

Inserted == featureFile # NoText

\* C11 as stated: for every text, hasJiraLink of the text the inserter wrote
\* is the key of the inserted link line.
C11_RoundTripOnEveryText ==
    Inserted =>
        \E key \in LinkKeys :
            insertedLink = linkLineOf(key) /\ hasJiraLink(featureFile) = key

\* C11 (amended): for every text in which hasJiraLink finds no link,
\* hasJiraLink of the text the inserter wrote is the key of the inserted
\* link line.
C11_RoundTripOnUnlinkedText ==
    (Inserted /\ hasJiraLink(contentBefore) = NoText) =>
        \E key \in LinkKeys :
            insertedLink = linkLineOf(key) /\ hasJiraLink(featureFile) = key

C11_Witness ==
    /\ Inserted
    /\ contentBefore = L_Title \o <<NL>> \o JiraLabel \o <<NL>>
    /\ hasJiraLink(contentBefore) = NoText
    /\ hasJiraLink(featureFile) = <<"C", "-", "7">>

\* C12: the insertion index is the line after the first line starting with
\* '# ', advanced past every immediately following blank line, and 1 when
\* no line starts with '# '; for '# Title\n\nBody' it is 2.
C12_InsertionIndexRule ==
    Inserted =>
        /\ insertIndex = RuleIndex(splitLines(contentBefore))
        /\ (contentBefore = TitleBlankBody => insertIndex = 2)

C12_Witness ==
    /\ Inserted
    /\ contentBefore = TitleBlankBody
    /\ insertIndex = 2

\* C13: the written content is the original lines before the insertion
\* index, one empty line, the link line, then the remaining original lines;
\* removing the two inserted lines gives back the original content.
C13_InsertsTwoLinesOnly ==
    Inserted =>
        LET before == splitLines(contentBefore)
            after == splitLines(featureFile)
            at == insertIndex
        IN  /\ Len(after) = Len(before) + 2
            /\ SubSeq(after, 1, at) = SubSeq(before, 1, at)
            /\ after[at + 1] = <<>>
            /\ after[at + 2] = insertedLink
            /\ SubSeq(after, at + 3, Len(after)) = SubSeq(before, at + 1, Len(before))
            /\ joinLines(SubSeq(after, 1, at) \o SubSeq(after, at + 3, Len(after)))
                   = contentBefore

C13_Witness ==
    /\ Inserted
    /\ contentBefore = L_Hash \o L_Body \o <<NL>> \o L_Body
    /\ insertIndex = 1
    /\ featureFile = L_Hash \o L_Body \o <<NL, NL>> \o insertedLink \o <<NL>> \o L_Body

-----------------------------------------------------------------------------
(* WorkspaceMutator (checkDirectoryExists, createFeatureDirectory).  An     *)
(* entry name is a sequence of characters, an entry path a sequence of     *)
(* entry names, and the workspace a function from the paths of its entries *)
(* to [kind |-> DIRECTORY] or [kind |-> FILE, text |-> the file's text].   *)

NoError == "none"

\* FileSystemDirectoryHandle.getDirectoryHandle / getFileHandle(name, {create})
\* on directory dir: the error thrown (NoError when a handle is returned)
\* and the workspace after the call
getHandle(ws, den, dir, name, kind, create) ==
    LET p == Append(dir, name)
    IN  IF p \in den THEN [error |-> "NotAllowedError", ws |-> ws]
        ELSE IF p \in DOMAIN ws
             THEN IF ws[p].kind = kind
                  THEN [error |-> NoError, ws |-> ws]
                  ELSE [error |-> "TypeMismatchError", ws |-> ws]
        ELSE IF create
             THEN [error |-> NoError,
                   ws |-> IF kind = FILE
                          THEN (p :> [kind |-> FILE, text |-> <<>>]) @@ ws
                          ELSE (p :> [kind |-> DIRECTORY]) @@ ws]
        ELSE [error |-> "NotFoundError", ws |-> ws]

\* a handle of an existing directory is returned, never a new one made
getDirectoryHandle_ExistingOnly(ws, den, dir, name, create) ==
    getHandle(ws, den, dir, name, DIRECTORY, FALSE)

getDirectoryHandle(ws, den, dir, name, create) ==
    getHandle(ws, den, dir, name, DIRECTORY, create)

RECURSIVE walkSegments(_, _, _, _, _)
\* for (const segment of pathSegments)
\*     currentHandle = await currentHandle.getDirectoryHandle(segment[, {create: true}])
walkSegments(ws, den, currentHandle, pathSegments, create) ==
    IF pathSegments = <<>> THEN [error |-> NoError, ws |-> ws]
    ELSE LET r == getDirectoryHandle(ws, den, currentHandle, Head(pathSegments), create)
         IN  IF r.error # NoError THEN r
             ELSE walkSegments(r.ws, den, Append(currentHandle, Head(pathSegments)),
                               Tail(pathSegments), create)

\* every failure of the walk reported as "does not exist"
checkDirectoryExists_MaskAll(ws, den, pathSegments) ==
    LET r == walkSegments(ws, den, <<>>, pathSegments, FALSE)
    IN  [returned |-> r.error = NoError, threw |-> NoError]

\* the value returned (when nothing is thrown) and the error thrown
checkDirectoryExists(ws, den, pathSegments) ==
    LET r == walkSegments(ws, den, <<>>, pathSegments, FALSE)
    IN  IF r.error = NoError THEN [returned |-> TRUE, threw |-> NoError]
        ELSE IF r.error = "NotFoundError" THEN [returned |-> FALSE, threw |-> NoError]
        ELSE [returned |-> FALSE, threw |-> r.error]

RECURSIVE splitOn(_, _)
\* String.prototype.split(separator) for a one-character separator
splitOn(s, sep) ==
    IF \A k \in 1..Len(s) : s[k] # sep THEN <<s>>
    ELSE LET k == CHOOSE j \in 1..Len(s) : s[j] = sep /\ \A m \in 1..(j - 1) : s[m] # sep
         IN  <<SubSeq(s, 1, k - 1)>> \o splitOn(SubSeq(s, k + 1, Len(s)), sep)

RECURSIVE joinWith(_, _)
\* Array.prototype.join(separator)
joinWith(words, sep) ==
    IF Len(words) = 0 THEN <<>>
    ELSE IF Len(words) = 1 THEN words[1]
    ELSE words[1] \o <<sep>> \o joinWith(Tail(words), sep)

\* String.prototype.toUpperCase on one ASCII character
toUpperCase(c) == IF c \in DOMAIN UpperOf THEN UpperOf[c] ELSE c

\* the word as it is
capitalize_Keep(word) == word

\* word.charAt(0).toUpperCase() + word.slice(1)
capitalize(word) ==
    IF word = <<>> THEN <<>> ELSE <<toUpperCase(word[1])>> \o Tail(word)

\* the template from the end of its first line on: the line break, then the
\* fixed text as one atom
TemplateRest == <<NL, "\n---\n\n## Overview\n\n*Describe the purpose and goals of this feature.*\n\n## Problem Statement\n\n*Describe the problem or gap this feature addresses.*\n\n## Proposed Solution\n\n*Describe the proposed approach to solving the problem.*\n\n## Key Requirements\n\n### Functional Requirements\n\n- [ ] *FR-1: Describe requirement*\n\n### Technical Requirements\n\n- *Describe any technical requirements or constraints*\n\n## Out of Scope\n\n- *List items that are out of scope for v1*\n\n## Success Criteria\n\n1. *Describe acceptance criteria*\n\n## Open Questions\n\n- *List any open questions or decisions needed*\n">>

getFeatureTemplate(featureName) ==
    LET words == splitOn(featureName, "-")
        title == joinWith([i \in 1..Len(words) |-> capitalize(words[i])], " ")
    IN  <<"#", " ">> \o title \o TemplateRest

FeatureMd == <<"f", "e", "a", "t", "u", "r", "e", ".", "m", "d">>

\* createWritable / write / close on the file at path p
writeFile(ws, p, text) == [ws EXCEPT ![p] = [kind |-> FILE, text |-> text]]

\* the error thrown (NoError when the handles are returned) and the
\* workspace after the call
createFeatureDirectory(ws, den, pathSegments, featureName) ==
    LET parent == walkSegments(ws, den, <<>>, pathSegments, TRUE)
        feature == getDirectoryHandle(parent.ws, den, pathSegments, featureName, TRUE)
        featurePath == Append(pathSegments, featureName)
        file == getHandle(feature.ws, den, featurePath, FeatureMd, FILE, TRUE)
    IN  IF parent.error # NoError THEN parent
        ELSE IF feature.error # NoError THEN feature
        ELSE IF file.error # NoError THEN file
        ELSE [error |-> NoError,
              ws |-> writeFile(file.ws, Append(featurePath, FeatureMd),
                               getFeatureTemplate(featureName))]

-----------------------------------------------------------------------------
(* Workspaces the mutator is called on. *)

N_features == <<"f", "e", "a", "t", "u", "r", "e", "s">>
N_projects == <<"p", "r", "o", "j", "e", "c", "t", "s">>
N_acme == <<"a", "c", "m", "e">>
N_dark_mode == <<"d", "a", "r", "k", "-", "m", "o", "d", "e">>
N_x2b == <<"x", "-", "-", "2", "b">>

Dir == [kind |-> DIRECTORY]
OwnText == [kind |-> FILE, text |-> <<"M", "i", "n", "e">>]

InitialWorkspaces == {
    (<<>> :> Dir),
    (<<>> :> Dir) @@ (<<N_features>> :> Dir),
    (<<>> :> Dir) @@ (<<N_features>> :> OwnText),
    (<<>> :> Dir) @@ (<<N_features>> :> Dir) @@ (<<N_features, N_dark_mode>> :> OwnText),
    (<<>> :> Dir) @@ (<<N_features>> :> Dir) @@ (<<N_features, N_dark_mode>> :> Dir)
        @@ (<<N_features, N_dark_mode, FeatureMd>> :> OwnText),
    (<<>> :> Dir) @@ (<<N_features>> :> Dir) @@ (<<N_features, N_dark_mode>> :> Dir)
        @@ (<<N_features, N_dark_mode, FeatureMd>> :> Dir),
    (<<>> :> Dir) @@ (<<N_projects>> :> Dir) @@ (<<N_projects, N_acme>> :> Dir) }

DeniedChoices == {
    {},
    {<<N_features>>},
    {<<N_features, N_dark_mode>>},
    {<<N_features, N_dark_mode, FeatureMd>>},
    {<<N_projects, N_acme, N_features>>} }

TargetSegments == {<<N_features>>, <<N_projects, N_acme, N_features>>}

FeatureNames == {N_dark_mode, N_x2b}

InitMutator ==
    /\ workspace \in InitialWorkspaces
    /\ denied \in DeniedChoices
    /\ checked = NoCall
    /\ created = NoCall
    /\ ViewerIdle
    /\ SessionIdle
    /\ ClassifierIdle
    /\ ScannerIdle
    /\ StatusIdle
    /\ JiraIdle
    /\ CreateIdle
    /\ RefreshIdle
    /\ DraftIdle
    /\ BackendIdle

CallCheckDirectoryExists(pathSegments) ==
    /\ checked' = [call |-> "checkDirectoryExists", pathSegments |-> pathSegments,
                   outcome |-> checkDirectoryExists(workspace, denied, pathSegments),
                   on |-> workspace]
    /\ UNCHANGED <<workspace, denied, created, notMutatorVars>>

CallCreateFeatureDirectory(pathSegments, featureName) ==
    LET r == createFeatureDirectory(workspace, denied, pathSegments, featureName)
    IN  /\ workspace' = r.ws
        /\ created' = [call |-> "createFeatureDirectory", pathSegments |-> pathSegments,
                       featureName |-> featureName, threw |-> r.error, before |-> workspace]
        /\ UNCHANGED <<denied, checked, notMutatorVars>>

NextMutator ==
    \/ \E segs \in TargetSegments, name \in FeatureNames :
           \/ CallCheckDirectoryExists(segs)
           \/ CallCheckDirectoryExists(Append(segs, name))
    \/ \E segs \in TargetSegments, name \in FeatureNames :
           CallCreateFeatureDirectory(segs, name)

SpecMutator == InitMutator /\ [][NextMutator]_vars

Prefixes(segs) == { SubSeq(segs, 1, k) : k \in 1..Len(segs) }

IsDirectoryIn(ws, p) == p \in DOMAIN ws /\ ws[p].kind = DIRECTORY

\* C14: checkDirectoryExists returns true exactly when every segment, taken
\* in order, resolves to an existing directory; it returns false when the
\* walk fails with a not-found error at some step; any other failure is
\* re-raised and never reported as false.
C14_ExistsOrNotFoundOrRaised ==
    checked # NoCall =>
        LET segs == checked.pathSegments
            out == checked.outcome
            resolves(p) == IsDirectoryIn(checked.on, p) /\ p \notin denied
            stuck == { p \in Prefixes(segs) : ~resolves(p) }
            first == CHOOSE p \in stuck : \A q \in stuck : Len(p) <= Len(q)
        IN  /\ (out.threw = NoError /\ out.returned) <=> stuck = {}
            /\ (out.threw = NoError /\ ~out.returned) <=>
                   (stuck # {} /\ first \notin DOMAIN checked.on /\ first \notin denied)
            /\ (stuck # {} /\ (first \in DOMAIN checked.on \/ first \in denied)) =>
                   out.threw \in {"TypeMismatchError", "NotAllowedError"}

C14_Witness ==
    /\ checked # NoCall
    /\ checked.pathSegments = <<N_features, N_dark_mode>>
    /\ IsDirectoryIn(checked.on, <<N_features>>)
    /\ <<N_features, N_dark_mode>> \in denied
    /\ checked.outcome.threw = "NotAllowedError"

\* the title the rule gives: every '-' becomes a space and every character
\* that starts a word is put in upper case
RuleTitle(name) ==
    [i \in 1..Len(name) |->
        IF name[i] = "-" THEN " "
        ELSE IF i = 1 \/ name[i - 1] = "-" THEN toUpperCase(name[i])
        ELSE name[i]]

CreatedOk == created # NoCall /\ created.threw = NoError

\* C15: after createFeatureDirectory completes successfully the directory
\* segments/name exists and holds a file feature.md whose content is the
\* fixed template, its first line being '# ' and the title made of the
\* capitalised words of name joined by single spaces ('# Dark Mode' for
\* dark-mode).
C15_CreatesFeatureWithTemplate ==
    CreatedOk =>
        LET dir == Append(created.pathSegments, created.featureName)
            file == Append(dir, FeatureMd)
        IN  /\ \A p \in Prefixes(dir) : IsDirectoryIn(workspace, p)
            /\ file \in DOMAIN workspace
            /\ workspace[file].kind = FILE
            /\ workspace[file].text =
                   <<"#", " ">> \o RuleTitle(created.featureName) \o TemplateRest
            /\ (created.featureName = N_dark_mode =>
                   splitLines(workspace[file].text)[1] =
                       <<"#", " ", "D", "a", "r", "k", " ", "M", "o", "d", "e">>)

C15_Witness ==
    /\ CreatedOk
    /\ created.featureName = N_dark_mode
    /\ created.pathSegments = <<N_projects, N_acme, N_features>>
    /\ <<N_projects>> \notin DOMAIN created.before
    /\ splitLines(workspace[<<N_projects, N_acme, N_features, N_dark_mode, FeatureMd>>].text)[1]
           = <<"#", " ", "D", "a", "r", "k", " ", "M", "o", "d", "e">>

\* C16: createFeatureDirectory makes no existence check: with the
\* directories or feature.md already there it still succeeds, reuses them
\* and leaves feature.md holding the template, and a second call with the
\* same arguments leaves the workspace as the first call left it.
C16_CreateIsIdempotent ==
    created # NoCall =>
        LET dir == Append(created.pathSegments, created.featureName)
            file == Append(dir, FeatureMd)
            again == createFeatureDirectory(workspace, denied, created.pathSegments,
                                            created.featureName)
            usable == /\ \A p \in Prefixes(dir) :
                             p \notin denied /\ (p \in DOMAIN created.before =>
                                                    created.before[p].kind = DIRECTORY)
                      /\ file \notin denied
                      /\ file \in DOMAIN created.before => created.before[file].kind = FILE
        IN  /\ usable => created.threw = NoError
            /\ created.threw = NoError =>
                   /\ again = [error |-> NoError, ws |-> workspace]
                   /\ \A p \in DOMAIN created.before :
                          p # file => workspace[p] = created.before[p]

C16_Witness ==
    /\ CreatedOk
    /\ created.pathSegments = <<N_features>>
    /\ created.featureName = N_dark_mode
    /\ <<N_features, N_dark_mode, FeatureMd>> \in DOMAIN created.before
    /\ created.before[<<N_features, N_dark_mode, FeatureMd>>] = OwnText
    /\ workspace[<<N_features, N_dark_mode, FeatureMd>>].text = getFeatureTemplate(N_dark_mode)

-----------------------------------------------------------------------------
(* Create-feature modal (src/js/app.js): validateFeatureName and           *)
(* handleCreateFeatureSubmit.  A validation or submission that waits for   *)
(* the file system is a task; the handlers of other events run meanwhile.  *)

MaxTasks == 2

\* /^[a-z0-9]+(-[a-z0-9]+)*$/
kebabRegexTest(name) ==
    LET words == splitOn(name, "-")
    IN  \A i \in 1..Len(words) :
            /\ words[i] # <<>>
            /\ \A k \in 1..Len(words[i]) :
                   words[i][k] \in Range(LowerCase) \cup Range(Digits)

getTargetPathSegments(f) ==
    IF f.type = "standalone" THEN <<N_features>>
    ELSE <<N_projects, f.project, N_features>>

\* the checks after the kebab-case check are left out
validateSync_FormatOnly(f) ==
    LET name == trim(f.name)
    IN  name # <<>> /\ Len(name) >= 2 /\ kebabRegexTest(name)

\* validateFeatureName up to its await: TRUE when it goes on to the
\* duplicate check, FALSE when it has returned false
validateSync(f) ==
    LET name == trim(f.name)
    IN  /\ name # <<>>
        /\ Len(name) >= 2
        /\ kebabRegexTest(name)
        /\ (f.type = "project" => f.project # <<>>)

\* values typed into the name input
NameInputs == {<<>>, <<"x">>, <<"D", "a", "r", "k">>, N_dark_mode,
               <<"d", "a", "r", "k", "-", "m", "o", "d", "e", " ">>, <<"x", "-">>}

\* values of the project dropdown: '' (Select a project...) and the projects
ProjectOptions == {<<>>, N_acme}

WithFeature ==
    (<<>> :> Dir) @@ (<<N_features>> :> Dir) @@ (<<N_features, N_dark_mode>> :> Dir)
        @@ (<<N_features, N_dark_mode, FeatureMd>> :> OwnText)

\* handleCreateFeatureClick has reset the form and opened the modal
InitCreate ==
    /\ \/ workspace = (<<>> :> Dir) /\ denied = {}
       \/ workspace = WithFeature /\ denied = {}
       \/ workspace = WithFeature /\ denied = {<<N_features, N_dark_mode>>}
    /\ checked = NoCall
    /\ created = NoCall
    /\ form = [name |-> <<>>, type |-> "standalone", project |-> <<>>]
    /\ debounceTimer = FALSE
    /\ submitDisabled = TRUE
    /\ tasks = <<>>
    /\ calls = {}
    /\ ViewerIdle
    /\ SessionIdle
    /\ ClassifierIdle
    /\ ScannerIdle
    /\ StatusIdle
    /\ JiraIdle
    /\ RefreshIdle
    /\ DraftIdle
    /\ BackendIdle

\* validateFeatureName is called for the form f: the submit button is
\* disabled, and a task waits for checkDirectoryExists unless the
\* validation has returned false already
validateFeatureName(kind, f) ==
    /\ Len(tasks) < MaxTasks
    /\ submitDisabled' = TRUE
    /\ tasks' = IF validateSync(f)
                THEN Append(tasks, [kind |-> kind, at |-> "check", featureName |-> trim(f.name),
                                    pathSegments |-> getTargetPathSegments(f)])
                ELSE tasks

\* input event of the name input
handleInput(value) ==
    /\ value # form.name
    /\ form' = [form EXCEPT !.name = value]
    /\ debounceTimer' = TRUE
    /\ UNCHANGED <<submitDisabled, tasks, calls, mutatorVars, notCreateVars>>

\* the 200 ms timer set by the input event fires
DebounceFires ==
    /\ debounceTimer
    /\ debounceTimer' = FALSE
    /\ validateFeatureName("validate", form)
    /\ UNCHANGED <<form, calls, mutatorVars, notCreateVars>>

\* change event of the project dropdown
handleProjectChange(project) ==
    /\ project # form.project
    /\ form' = [form EXCEPT !.project = project]
    /\ validateFeatureName("validate", form')
    /\ UNCHANGED <<debounceTimer, calls, mutatorVars, notCreateVars>>

handleFeatureTypeChange(type) ==
    /\ type # form.type
    /\ form' = [form EXCEPT !.type = type]
    /\ validateFeatureName("validate", form')
    /\ UNCHANGED <<debounceTimer, calls, mutatorVars, notCreateVars>>

\* submit event of the form, up to the await of the validation
handleCreateFeatureSubmit ==
    /\ ~submitDisabled
    /\ validateFeatureName("submit", form)
    /\ UNCHANGED <<form, debounceTimer, calls, mutatorVars, notCreateVars>>

RemoveAt(s, i) == SubSeq(s, 1, i - 1) \o SubSeq(s, i + 1, Len(s))

\* checkDirectoryExists settles and validateFeatureName runs to its end; a
\* submission that was told "valid" goes on to call createFeatureDirectory
DuplicateCheckSettles(i) ==
    LET t == tasks[i]
        fullPath == Append(t.pathSegments, t.featureName)
        exists == checkDirectoryExists(workspace, denied, fullPath)
    IN  /\ t.at = "check"
        /\ IF exists.threw = NoError /\ exists.returned
           THEN /\ tasks' = RemoveAt(tasks, i)
                /\ UNCHANGED <<submitDisabled, calls>>
           ELSE IF t.kind = "validate"
           THEN /\ tasks' = RemoveAt(tasks, i)
                /\ submitDisabled' = FALSE
                /\ UNCHANGED calls
           ELSE /\ tasks' = [tasks EXCEPT ![i].at = "create"]
                /\ submitDisabled' = TRUE
                /\ calls' = calls \cup
                       {[featureName |-> t.featureName, pathSegments |-> t.pathSegments,
                         existed |-> IsDirectoryIn(workspace, fullPath)]}
        /\ UNCHANGED <<form, debounceTimer, mutatorVars, notCreateVars>>

\* createFeatureDirectory settles and handleCreateFeatureSubmit runs to its end
CreateSettles(i) ==
    LET t == tasks[i]
    IN  /\ t.at = "create"
        /\ workspace' = createFeatureDirectory(workspace, denied, t.pathSegments,
                                               t.featureName).ws
        /\ tasks' = RemoveAt(tasks, i)
        /\ submitDisabled' = FALSE
        /\ UNCHANGED <<form, debounceTimer, calls, denied, checked, created, notCreateVars>>

NextCreate ==
    \/ \E value \in NameInputs : handleInput(value)
    \/ DebounceFires
    \/ \E project \in ProjectOptions : handleProjectChange(project)
    \/ \E type \in {"standalone", "project"} : handleFeatureTypeChange(type)
    \/ handleCreateFeatureSubmit
    \/ \E i \in 1..Len(tasks) : DuplicateCheckSettles(i)
    \/ \E i \in 1..Len(tasks) : CreateSettles(i)

SpecCreate == InitCreate /\ [][NextCreate]_vars

\* C17: a create-feature submission never calls createFeatureDirectory when
\* the feature name is empty, shorter than 2 characters or not kebab-case,
\* when a project feature has no project selected, or when a directory of
\* that name already exists at the target location.
C17_NoMutationAfterFailedValidation ==
    \A c \in calls :
        /\ Len(c.featureName) >= 2
        /\ kebabRegexTest(c.featureName)
        /\ c.pathSegments # <<N_projects, <<>>, N_features>>
        /\ ~c.existed

-----------------------------------------------------------------------------
(* Tree refresh (src/js/app.js): refresh() and the handlers that call it.  *)
(* The structure scanDirectory resolves with is named by the number of the *)
(* scan and the handle it was started on.                                  *)

MaxScans == 3

\* directories the user can pick in the directory picker
WorkspaceHandles == {RootName, "other"}

InitRefresh ==
    /\ RefreshIdle
    /\ ViewerIdle
    /\ SessionIdle
    /\ ClassifierIdle
    /\ ScannerIdle
    /\ StatusIdle
    /\ JiraIdle
    /\ MutatorIdle
    /\ CreateIdle
    /\ DraftIdle
    /\ BackendIdle

\* refresh() up to its await: 'Scanning...' is shown and scanDirectory is
\* called on the current handle
refresh ==
    /\ scanCount < MaxScans
    /\ IF currentDirHandle = NoHandle
       THEN UNCHANGED <<scans, treePanel, scanCount>>
       ELSE /\ treePanel' = "Scanning..."
            /\ scanCount' = scanCount + 1
            /\ scans' = scans \cup {[scan |-> scanCount + 1, root |-> currentDirHandle]}
    /\ UNCHANGED <<currentDirHandle, currentStructure, latestSettled, pageChrome, picked,
                   notRefreshVars>>

\* the directory picker resolves with dirHandle: the handle is stored and the
\* initial scan is started
handleSelectWorkspace(dirHandle) ==
    /\ scanCount < MaxScans
    /\ currentDirHandle' = dirHandle
    /\ treePanel' = "Scanning..."
    /\ scanCount' = scanCount + 1
    /\ scans' = scans \cup {[scan |-> scanCount + 1, root |-> dirHandle]}
    /\ workspacePath' = [textContent |-> dirHandle, active |-> TRUE]
    /\ btnRefreshDisabled' = FALSE
    /\ btnCreateFeatureDisabled' = FALSE
    /\ UNCHANGED <<currentStructure, latestSettled, picked, notRefreshVars>>

\* the catch block of handleSelectWorkspace: what the tree panel shows after
\* the error named errorName was caught
catchSelectError_ShowAll(errorName, panel) == "Failed to select directory"

catchSelectError(errorName, panel) ==
    IF errorName = "AbortError" THEN panel ELSE "Failed to select directory"

\* what of the page handleSelectWorkspace can touch
selectView ==
    [currentDirHandle |-> currentDirHandle, workspacePath |-> workspacePath,
     btnRefreshDisabled |-> btnRefreshDisabled,
     btnCreateFeatureDisabled |-> btnCreateFeatureDisabled, treePanel |-> treePanel]

PickerErrors == {"AbortError", "SecurityError"}

\* the directory picker rejects: the assignment to currentDirHandle and the
\* statements after it are skipped, the catch block runs
handleSelectWorkspaceRejected(errorName) ==
    /\ treePanel' = catchSelectError(errorName, treePanel)
    /\ picked' = [call |-> "handleSelectWorkspace", error |-> errorName,
                  before |-> selectView,
                  after |-> [selectView EXCEPT !.treePanel = treePanel']]
    /\ UNCHANGED <<currentDirHandle, scans, currentStructure, scanCount, latestSettled,
                   pageChrome, notRefreshVars>>

\* click on Refresh; the button is disabled until a workspace is selected
handleRefresh ==
    /\ currentDirHandle # NoHandle
    /\ refresh

\* 'refresh-tree' event dispatched by the analysis panel
RefreshTreeEvent == refresh

\* the refresh() call of handleCreateFeatureSubmit after the feature is
\* created; Create Feature is disabled until a workspace is selected
RefreshAfterCreate ==
    /\ currentDirHandle # NoHandle
    /\ refresh

\* scanDirectory of a pending refresh() settles and refresh() runs to its end
ScanSettles(s, outcome) ==
    /\ s \in scans
    /\ scans' = scans \ {s}
    /\ IF outcome = "rejected"
       THEN /\ treePanel' = "Scan failed"
            /\ UNCHANGED <<currentStructure, latestSettled>>
       ELSE /\ currentStructure' = s
            /\ treePanel' = IF outcome = "no children"
                            THEN "No recognized structure found"
                            ELSE "tree"
            /\ latestSettled' = IF s.scan > latestSettled THEN s.scan ELSE latestSettled
    /\ UNCHANGED <<currentDirHandle, scanCount, pageChrome, picked, notRefreshVars>>

NextRefresh ==
    \/ \E dirHandle \in WorkspaceHandles : handleSelectWorkspace(dirHandle)
    \/ \E errorName \in PickerErrors : handleSelectWorkspaceRejected(errorName)
    \/ handleRefresh
    \/ RefreshTreeEvent
    \/ RefreshAfterCreate
    \/ \E s \in scans, outcome \in {"children", "no children", "rejected"} :
           ScanSettles(s, outcome)

SpecRefresh == InitRefresh /\ [][NextRefresh]_vars

\* C18: at most one workspace scan is in progress at any time, so
\* currentStructure and the rendered tree are never overwritten by a scan
\* that was started before a later one.
C18_OneScanAtATime ==
    /\ Cardinality(scans) <= 1
    /\ currentStructure.scan >= latestSettled

\* C21: when the directory picker is dismissed (AbortError),
\* handleSelectWorkspace leaves the workspace handle, the workspace label,
\* the enabled states of the buttons and the tree panel as they were, and
\* shows no error.
C21_DismissedPickerChangesNothing ==
    (picked # NoCall /\ picked.error = "AbortError") => picked.after = picked.before

\* the picker was dismissed while a workspace was selected and its tree shown
C21_Witness ==
    /\ picked # NoCall
    /\ picked.error = "AbortError"
    /\ picked.before.currentDirHandle # NoHandle
    /\ picked.before.treePanel = "tree"
    /\ treePanel = "tree"

-----------------------------------------------------------------------------
(* Answer drafts of the analysis panel (src/js/analyze.js).  The panel     *)
(* shows the question of a session in one input; the drafts object stored  *)
(* for a session is the sequence of the input values it was made from,     *)
(* <<>> for the object without properties.                                 *)

MaxSessions == 2

\* values of a question input
AnswerValues == {"", "a", "ab"}

InitDrafts ==
    /\ DraftIdle
    /\ ViewerIdle
    /\ SessionIdle
    /\ ClassifierIdle
    /\ ScannerIdle
    /\ StatusIdle
    /\ JiraIdle
    /\ MutatorIdle
    /\ CreateIdle
    /\ RefreshIdle
    /\ BackendIdle

\* localStorage after clearDrafts()
clearDrafts(store) ==
    IF currentSessionId # 0
    THEN [k \in DOMAIN store \ {currentSessionId} |-> store[k]]
    ELSE store

\* localStorage after saveDrafts()
saveDrafts(store) ==
    IF currentSessionId = 0 THEN store
    ELSE (currentSessionId :> questionInputs) @@ store

\* an analysis is started on a feature: showAnalysisPanel puts the loading
\* state into the panel and connectAnalysisWebSocket sets the session id
connectAnalysisWebSocket ==
    /\ sessionCount < MaxSessions
    /\ sessionCount' = sessionCount + 1
    /\ currentSessionId' = sessionCount + 1
    /\ questionInputs' = <<>>
    /\ UNCHANGED <<saveTimer, localStorage, answerRequests, cleared, notDraftVars>>

\* 'questions' message: renderQuestions, then loadDrafts
QuestionsMessage ==
    /\ currentSessionId # 0
    /\ questionInputs' =
           IF /\ currentSessionId \in DOMAIN localStorage
              /\ localStorage[currentSessionId] # <<>>
              /\ localStorage[currentSessionId][1] # ""
           THEN <<localStorage[currentSessionId][1]>>
           ELSE <<"">>
    /\ UNCHANGED <<currentSessionId, saveTimer, localStorage, answerRequests, cleared,
                   sessionCount, notDraftVars>>

\* input event of a question input: saveDraftsDebounced restarts the timer
handleAnswerInput(value) ==
    /\ currentSessionId # 0
    /\ questionInputs # <<>>
    /\ questionInputs # <<value>>
    /\ questionInputs' = <<value>>
    /\ saveTimer' = TRUE
    /\ UNCHANGED <<currentSessionId, localStorage, answerRequests, cleared, sessionCount, notDraftVars>>

\* the 500 ms timer fires: saveDrafts
SaveTimerFires ==
    /\ saveTimer
    /\ saveTimer' = FALSE
    /\ localStorage' = saveDrafts(localStorage)
    /\ UNCHANGED <<currentSessionId, questionInputs, answerRequests, cleared, sessionCount, notDraftVars>>

\* click on Submit Answers, enabled when every question is answered
submitAnswers ==
    /\ currentSessionId # 0
    /\ currentSessionId \notin answerRequests
    /\ questionInputs # <<>>
    /\ questionInputs[1] # ""
    /\ answerRequests' = answerRequests \cup {currentSessionId}
    /\ UNCHANGED <<currentSessionId, questionInputs, saveTimer, localStorage, cleared,
                   sessionCount, notDraftVars>>

\* the response of POST .../answers for session s arrives and submitAnswers
\* runs to its end; either way the questions leave the panel
AnswersRespond(s, ok) ==
    /\ s \in answerRequests
    /\ answerRequests' = answerRequests \ {s}
    /\ questionInputs' = <<>>
    /\ localStorage' = IF ok THEN clearDrafts(localStorage) ELSE localStorage
    /\ cleared' = IF ok THEN cleared \cup {s} ELSE cleared
    /\ UNCHANGED <<currentSessionId, saveTimer, sessionCount, notDraftVars>>

\* click on the close button of the panel
hideAnalysisPanel ==
    /\ localStorage' = clearDrafts(localStorage)
    /\ cleared' = cleared \cup ({currentSessionId} \ {0})
    /\ currentSessionId' = 0
    /\ UNCHANGED <<questionInputs, saveTimer, answerRequests, sessionCount, notDraftVars>>

NextDrafts ==
    \/ connectAnalysisWebSocket
    \/ QuestionsMessage
    \/ \E value \in AnswerValues : handleAnswerInput(value)
    \/ SaveTimerFires
    \/ submitAnswers
    \/ \E s \in answerRequests, ok \in BOOLEAN : AnswersRespond(s, ok)
    \/ hideAnalysisPanel

SpecDrafts == InitDrafts /\ [][NextDrafts]_vars

\* C19: once the answers of a session have been submitted successfully, or
\* the panel has been closed, local storage holds no draft entry for that
\* session id, and none reappears afterwards.
C19_NoDraftAfterSubmitOrClose ==
    \A s \in cleared : s \notin DOMAIN localStorage

-----------------------------------------------------------------------------
(* Backend bridge: starting an analysis and following its event stream     *)
(* (handleAnalyzeClick, connectAnalysisWebSocket) and creating a Jira      *)
(* ticket (handleCreateTicket).                                            *)

Error(message) == [show |-> "error", message |-> message]

InitBackend ==
    /\ BackendIdle
    /\ ViewerIdle
    /\ SessionIdle
    /\ ClassifierIdle
    /\ ScannerIdle
    /\ StatusIdle
    /\ JiraIdle
    /\ MutatorIdle
    /\ CreateIdle
    /\ RefreshIdle
    /\ DraftIdle

\* click on an analyze button, up to the await of fetch
handleAnalyzeClick ==
    /\ ~analyzeRequest
    /\ analysisContent' = Shows("loading")
    /\ analyzeRequest' = TRUE
    /\ lastFailure' = NoFailure
    /\ UNCHANGED <<analysisWebSocket, jiraModal, jiraRequest, notBackendVars>>

\* how POST /api/analyze/start can end
AnalyzeOutcomes == {"ok", "network error", "non-2xx response", "malformed body"}

\* fetch settles and handleAnalyzeClick runs to its end
AnalyzeStartSettles(outcome) ==
    /\ analyzeRequest
    /\ analyzeRequest' = FALSE
    /\ IF outcome = "ok"
       THEN /\ analysisWebSocket' = TRUE
            /\ lastFailure' = NoFailure
            /\ UNCHANGED analysisContent
       ELSE /\ analysisContent' = Error("Failed to start analysis")
            /\ lastFailure' = [during |-> "analysis start", kind |-> outcome]
            /\ UNCHANGED analysisWebSocket
    /\ UNCHANGED <<jiraModal, jiraRequest, notBackendVars>>

\* what a message of the event stream can be: an event of one of the five
\* types, text that is no JSON, or an event of another type
StreamEvents == {"output", "questions", "complete", "error", "cancelled",
                 "malformed event", "unknown event type"}

\* analysisWebSocket.onmessage
onmessage(event) ==
    /\ analysisWebSocket
    /\ analysisContent' =
           CASE event = "output" -> Shows("output")
             [] event = "questions" -> Shows("questions")
             [] event = "complete" -> Shows("success")
             [] event = "error" -> Error("data.message")
             [] event = "cancelled" -> Shows("cancelled")
             [] OTHER -> analysisContent
    /\ lastFailure' = IF event \in {"malformed event", "unknown event type"}
                      THEN [during |-> "analysis stream", kind |-> event]
                      ELSE NoFailure
    /\ UNCHANGED <<analysisWebSocket, analyzeRequest, jiraModal, jiraRequest, notBackendVars>>

\* analysisWebSocket.onerror; the connection delivers nothing afterwards
onerror ==
    /\ analysisWebSocket
    /\ analysisWebSocket' = FALSE
    /\ analysisContent' = Error("Connection error")
    /\ lastFailure' = [during |-> "analysis stream", kind |-> "WebSocket error"]
    /\ UNCHANGED <<analyzeRequest, jiraModal, jiraRequest, notBackendVars>>

\* click on Create Jira, or on Retry in the error state of the modal
showJiraModal ==
    /\ jiraModal.show \in {"hidden", "error"}
    /\ jiraModal' = Shows("form")
    /\ lastFailure' = NoFailure
    /\ UNCHANGED <<analysisContent, analysisWebSocket, analyzeRequest, jiraRequest,
                   notBackendVars>>

\* click on Create Ticket with a valid form, up to the await of fetch
handleCreateTicket ==
    /\ jiraModal.show = "form"
    /\ jiraModal' = Shows("loading")
    /\ jiraRequest' = TRUE
    /\ lastFailure' = NoFailure
    /\ UNCHANGED <<analysisContent, analysisWebSocket, analyzeRequest, notBackendVars>>

\* how POST /api/jira/create can end: a body with success: true, or a failure
TicketOutcomes == {"ok", "network error", "non-2xx response", "malformed body"}

\* fetch and response.json() settle and handleCreateTicket runs to its end
CreateTicketSettles(outcome) ==
    /\ jiraRequest
    /\ jiraRequest' = FALSE
    /\ jiraModal' =
           CASE outcome = "ok" -> Shows("success")
             [] outcome = "non-2xx response" -> Error("result.error || 'Unknown error occurred'")
             [] OTHER -> Error("Network error")
    /\ lastFailure' = IF outcome = "ok" THEN NoFailure
                      ELSE [during |-> "ticket creation", kind |-> outcome]
    /\ UNCHANGED <<analysisContent, analysisWebSocket, analyzeRequest, notBackendVars>>

\* Close, Cancel or Done in the modal
hideJiraModal ==
    /\ jiraModal.show # "hidden"
    /\ jiraModal' = Shows("hidden")
    /\ lastFailure' = NoFailure
    /\ UNCHANGED <<analysisContent, analysisWebSocket, analyzeRequest, jiraRequest,
                   notBackendVars>>

NextBackend ==
    \/ handleAnalyzeClick
    \/ \E outcome \in AnalyzeOutcomes : AnalyzeStartSettles(outcome)
    \/ \E event \in StreamEvents : onmessage(event)
    \/ onerror
    \/ showJiraModal
    \/ handleCreateTicket
    \/ \E outcome \in TicketOutcomes : CreateTicketSettles(outcome)
    \/ hideJiraModal

SpecBackend == InitBackend /\ [][NextBackend]_vars

\* C20: every backend failure during analysis or ticket creation (network
\* error, non-2xx response, WebSocket connection error, a streamed event
\* that is malformed or of unknown type) puts the corresponding panel into
\* an error state that shows a message, and nothing is retried.
C20_FailureShowsError ==
    /\ lastFailure.during = "analysis start" =>
           /\ analysisContent.show = "error"
           /\ analysisContent.message # ""
           /\ ~analyzeRequest
    /\ lastFailure.during = "analysis stream" =>
           /\ analysisContent.show = "error"
           /\ analysisContent.message # ""
    /\ lastFailure.during = "ticket creation" =>
           /\ jiraModal.show = "error"
           /\ jiraModal.message # ""
           /\ ~jiraRequest

-----------------------------------------------------------------------------
(* Scans of deep trees.  The disk holds one chain of nested directories,   *)
(* the schema's six levels followed by directories the schema does not     *)
(* know, and optionally a status.md in every directory of the chain.       *)

MaxTreeDepth == 10

ChainBases ==
    { <<"projects", "acme", "features", "login", "agents", "bot", "logs">>,
      <<"features", "login", "agents", "bot", "logs">> }

\* the directory k levels below the root on the chain that starts with base
Chain(base, k) == [i \in 1..k |-> IF i <= Len(base) THEN base[i] ELSE "tmp"]

DeepDisk(base, depth, fileNames) ==
    LET chainDirs == { Chain(base, k) : k \in 1..depth }
        chainFiles == { Append(d, f) : d \in chainDirs, f \in fileNames }
    IN  [p \in chainDirs \cup chainFiles |-> IF p \in chainDirs THEN DIRECTORY ELSE FILE]

InitDeepScan ==
    /\ \E base \in ChainBases, depth \in 1..MaxTreeDepth,
          fileNames \in SUBSET {"status.md"} :
            fs = DeepDisk(base, depth, fileNames)
    /\ stack = <<>>
    /\ failed = {}
    /\ listed = {}
    /\ result = NoResult
    /\ ClassifierIdle
    /\ StatusIdle
    /\ FrontendIdle

\* the event loop runs every continuation that is ready: a pending scan
\* always takes its next step
SpecDeepScan == InitDeepScan /\ [][Next]_vars /\ WF_vars(Next)

\* the nodes built so far: those of the returned tree and those of the
\* structures the pending calls are filling
NodesSoFar ==
    (IF Returned THEN Subtree(result) ELSE {}) \cup
    UNION { Subtree(stack[i].structure) : i \in 1..Len(stack) }

\* entries and steps a scan has still before it: the entries of directories
\* not listed yet, the entries the pending listings have not yielded, the
\* pending calls and the call of the root scan
Unyielded ==
    { p \in DOMAIN fs : Front(p) \notin listed } \cup
    { p \in DOMAIN fs : \E i \in 1..Len(stack) :
                           /\ stack[i].structure.handle = Front(p)
                           /\ Last(p) \in stack[i].todo }

ScanMeasure ==
    2 * Cardinality(Unyielded) + Len(stack)
        + (IF stack = <<>> /\ result = NoResult THEN 2 ELSE 0)

\* C22: scanDirectory terminates on every finite directory tree, lists no
\* directory whose root-relative path has more than 6 segments however deep
\* the tree on disk is, and no node of the tree it builds has a path of
\* more than 7 segments.
C22_TerminatesWithinSchemaDepth ==
    /\ <>(result # NoResult)
    /\ [][ScanMeasure' < ScanMeasure]_vars
    /\ [](\A h \in listed : Len(getPathSegments(PathString(h))) <= 6)
    /\ [](\A n \in NodesSoFar : Len(getPathSegments(n.path)) <= 7)

\* a scan returned from a disk that goes deeper than the schema, with the
\* agent folder listed and its status.md in the tree
C22_Witness ==
    /\ Returned
    /\ \E p \in DOMAIN fs : Len(p) = MaxTreeDepth /\ fs[p] = DIRECTORY
    /\ \E h \in listed : Len(h) = 6
    /\ \E n \in Subtree(result) : n.type = FILE /\ Len(getPathSegments(n.path)) = 7

-----------------------------------------------------------------------------
(* scanDirectory as a function of the disk: the tree it returns when every *)
(* listing yields its entries in one fixed order and no listing fails.     *)

RECURSIVE ListingOf(_)
\* the entries of a listing in the order the directory iterator of one
\* platform yields them
ListingOf(names) ==
    IF names = {} THEN <<>>
    ELSE LET first == CHOOSE n \in names : TRUE
         IN  <<first>> \o ListingOf(names \ {first})

RECURSIVE scanDirectory(_, _, _, _)
RECURSIVE collectChildren(_, _, _, _)

\* the body of the for-await loop, run over the entries in listing order
collectChildren(disk, dirHandle, path, entries) ==
    IF entries = <<>> THEN <<>>
    ELSE LET e == Last(entries)
             before == collectChildren(disk, dirHandle, path, Front(entries))
             handle == Append(dirHandle, e)
             entryPath == entryPathOf(path, Str(e))
         IN  IF skips(Str(e), disk[handle], path, entryPath) THEN before
             ELSE IF disk[handle] = DIRECTORY
             THEN Append(before, scanDirectory(disk, handle, Str(e), entryPath))
             ELSE Append(before, FileNode(handle, Str(e), entryPath))

scanDirectory(disk, dirHandle, name, path) ==
    [NewStructure(dirHandle, name, path) EXCEPT
        !.children = SortChildren(collectChildren(disk, dirHandle, path,
                                                  ListingOf(EntriesOf(disk, dirHandle))))]

\* two entries of one directory, of the same kind and both in the tree,
\* whose names localeCompare takes for equal
CollationTies ==
    { pq \in (DOMAIN fs) \X (DOMAIN fs) :
        /\ pq[1] # pq[2]
        /\ Front(pq[1]) = Front(pq[2])
        /\ fs[pq[1]] = fs[pq[2]]
        /\ localeCompare(Str(Last(pq[1])), Str(Last(pq[2]))) = 0
        /\ AllowedChain(pq[1])
        /\ AllowedChain(pq[2]) }

\* C23 as stated: with no listing failures, the tree scanDirectory returns
\* (nodes and child order) is the same whatever order each listing yields
\* its entries in, so it is the tree of the fixed listing order.
C23_SameTreeForEveryListingOrder ==
    (Returned /\ failed = {}) => result = scanDirectory(fs, <<>>, Str(RootName), <<>>)

\* C23: with no listing failures, and no two entries of one directory that
\* are of the same kind and have names localeCompare takes for equal, the
\* tree scanDirectory returns is the same whatever order each listing
\* yields its entries in.
C23_SameTreeUnlessNamesCollateEqual ==
    (Returned /\ failed = {} /\ CollationTies = {}) =>
        result = scanDirectory(fs, <<>>, Str(RootName), <<>>)

\* a tree was returned that holds two feature folders, listed in either
\* order, next to a projects folder
C23_Witness ==
    /\ Returned
    /\ failed = {}
    /\ CollationTies = {}
    /\ {<<"features", "Zed">>, <<"features", "resume(NFC)">>, <<"projects">>}
           \subseteq DOMAIN fs
    /\ \E n \in Subtree(result) :
          /\ n.handle = <<"features">>
          /\ Len(n.children) = 2

-----------------------------------------------------------------------------
(* Keywords and the text they are found in *)

\* C24: parseStatus returns completed, blocked or in-progress only if the
\* text itself holds one of that status's keywords as a whole word, compared
\* case-insensitively; a keyword that is only the beginning of a longer word
\* of the text never produces that status.
C24_KeywordIsWholeWordOfText ==
    \A k \in 1..Len(STATUS_PATTERNS) :
        status = STATUS_PATTERNS[k].status =>
            \E p \in 1..Len(STATUS_PATTERNS[k].patterns) :
                RegexTest(STATUS_PATTERNS[k].patterns[p], content)

\* C25: for every status s of completed, blocked, in-progress, not-started,
\* parsing the badge text of s gives s back.
C25_BadgeTextParsesToItsStatus ==
    \A s \in DOMAIN StatusSlug :
        content = getStatusText(StatusSlug[s]) => status = s

-----------------------------------------------------------------------------
(* File viewer and Jira context (src/js/app.js, src/js/jira.js,            *)
(* src/js/renderer.js): files are clicked in the tree and read, the open   *)
(* Markdown file is edited and auto-saved, and a ticket is created for the *)
(* open feature.md, whose link line is then written into the file.         *)

MaxTickets == 2
MaxEdits == 2

\* the file nodes of the rendered tree
FileNodes ==
    { [name |-> "feature.md", handle |-> "features/login/feature.md"],
      [name |-> "status.md", handle |-> "features/login/agents/bot/status.md"] }

FileHandles == { n.handle : n \in FileNodes }

TicketKey == <<"C", "-", "7">>

\* what the user types into the editor
EditedLine == <<NL, "e">>

InitViewer ==
    /\ \E featureText \in {L_Title \o <<NL>> \o L_Body,
                           L_Title \o <<NL>> \o JiraLabel \o L_OldKey} :
          files = [h \in FileHandles |->
                      IF h = "features/login/feature.md" THEN featureText ELSE W_done]
    /\ currentFileNode = NoNode
    /\ reads = {}
    /\ currentFeature = NoFeature
    /\ btnCreateJiraDisabled = TRUE
    /\ contentPanel = [show |-> "placeholder"]
    /\ saveTimeouts = {}
    /\ jiraDialog = "hidden"
    /\ ticketCount = 0
    /\ editCount = 0
    /\ written = NoCall
    /\ SessionIdle
    /\ ClassifierIdle
    /\ ScannerIdle
    /\ StatusIdle
    /\ JiraIdle
    /\ MutatorIdle
    /\ CreateIdle
    /\ RefreshIdle
    /\ DraftIdle
    /\ BackendIdle

\* displayContent(content, fileName, contentPanel, fileHandle)
displayContent(text, fileName, fileHandle) ==
    [show |-> "content", fileName |-> fileName, fileHandle |-> fileHandle, content |-> text]

\* click on a file row of the tree, up to the await of readFile; the modal's
\* backdrop covers the tree while the Jira modal is open
handleFileClick(fileNode) ==
    /\ jiraDialog = "hidden"
    /\ contentPanel' = [show |-> "loading"]
    /\ currentFileNode' = fileNode
    /\ reads' = reads \cup {[by |-> "handleFileClick", fileNode |-> fileNode]}
    /\ UNCHANGED <<files, currentFeature, btnCreateJiraDisabled, saveTimeouts, jiraDialog,
                   ticketCount, editCount, written, notViewerVars>>

\* readFile of a handleFileClick settles and the handler runs to its end
FileClickReadSettles(r, ok) ==
    /\ r \in reads
    /\ r.by = "handleFileClick"
    /\ reads' = reads \ {r}
    /\ IF ok
       THEN LET text == files[r.fileNode.handle]
            IN  /\ IF r.fileNode.name = "feature.md"
                   THEN /\ btnCreateJiraDisabled' = (hasJiraLink(text) # NoText)
                        /\ currentFeature' = [handle |-> r.fileNode.handle, content |-> text]
                   ELSE /\ btnCreateJiraDisabled' = TRUE
                        /\ currentFeature' = NoFeature
                /\ contentPanel' = displayContent(text, r.fileNode.name, r.fileNode.handle)
       ELSE /\ contentPanel' = [show |-> "error"]
            /\ UNCHANGED <<currentFeature, btnCreateJiraDisabled>>
    /\ UNCHANGED <<files, currentFileNode, saveTimeouts, jiraDialog, ticketCount, editCount,
                   written, notViewerVars>>

\* readFile of a handleFeatureUpdated settles: the handler goes on with the
\* file node that is current now
FeatureUpdatedReadSettles(r, ok) ==
    /\ r \in reads
    /\ r.by = "handleFeatureUpdated"
    /\ reads' = reads \ {r}
    /\ IF ok
       THEN LET text == files[r.fileNode.handle]
            IN  /\ contentPanel' =
                       displayContent(text, currentFileNode.name, currentFileNode.handle)
                /\ btnCreateJiraDisabled' =
                       IF hasJiraLink(text) # NoText THEN TRUE ELSE btnCreateJiraDisabled
                /\ currentFeature' = [handle |-> currentFileNode.handle, content |-> text]
       ELSE UNCHANGED <<contentPanel, btnCreateJiraDisabled, currentFeature>>
    /\ UNCHANGED <<files, currentFileNode, saveTimeouts, jiraDialog, ticketCount, editCount,
                   written, notViewerVars>>

\* click on Create Jira: showJiraModal
handleCreateJira ==
    /\ ~btnCreateJiraDisabled
    /\ jiraDialog = "hidden"
    /\ jiraDialog' = "form"
    /\ UNCHANGED <<files, currentFileNode, reads, currentFeature, btnCreateJiraDisabled,
                   contentPanel, saveTimeouts, ticketCount, editCount, written,
                   notViewerVars>>

\* click on Create in the form: the request is posted
postCreateTicket ==
    /\ jiraDialog = "form"
    /\ ticketCount < MaxTickets
    /\ jiraDialog' = "loading"
    /\ ticketCount' = ticketCount + 1
    /\ UNCHANGED <<files, currentFileNode, reads, currentFeature, btnCreateJiraDisabled,
                   contentPanel, saveTimeouts, editCount, written, notViewerVars>>

\* the response arrives: handleSuccess or showError
TicketResponds(success) ==
    /\ jiraDialog = "loading"
    /\ jiraDialog' = IF success THEN "success" ELSE "error"
    /\ UNCHANGED <<files, currentFileNode, reads, currentFeature, btnCreateJiraDisabled,
                   contentPanel, saveTimeouts, ticketCount, editCount, written,
                   notViewerVars>>

\* Cancel in the form or Close in the error state
closeJiraDialog ==
    /\ jiraDialog \in {"form", "error"}
    /\ jiraDialog' = "hidden"
    /\ UNCHANGED <<files, currentFileNode, reads, currentFeature, btnCreateJiraDisabled,
                   contentPanel, saveTimeouts, ticketCount, editCount, written,
                   notViewerVars>>

\* the text updateFeatureWithJiraLink makes of text and the link line
withJiraLink(text, jiraLinkMarkdown) ==
    LET lines == splitLines(text)
    IN  joinLines(splice(lines, insertIndexOf(lines), <<<<>>, jiraLinkMarkdown>>))

\* handleFeatureUpdated up to the await of readFile
startFeatureUpdatedRead ==
    IF currentFileNode # NoNode
    THEN reads \cup {[by |-> "handleFeatureUpdated", fileNode |-> currentFileNode]}
    ELSE reads

\* Done in the success state: updateFeatureWithJiraLink, whose write succeeds
\* or throws, the 'feature-updated' event it dispatches, then hideJiraModal
handleDone(writeOk) ==
    /\ jiraDialog = "success"
    /\ jiraDialog' = "hidden"
    /\ IF currentFeature.handle = NoHandle \/ currentFeature.content \in {NoText, <<>>}
         \/ ~writeOk
       THEN UNCHANGED <<files, currentFeature, reads, written>>
       ELSE LET newContent == withJiraLink(currentFeature.content, linkLineOf(TicketKey))
            IN  /\ files' = [files EXCEPT ![currentFeature.handle] = newContent]
                /\ currentFeature' = [currentFeature EXCEPT !.content = newContent]
                /\ reads' = startFeatureUpdatedRead
                /\ written' = [call |-> "updateFeatureWithJiraLink",
                               handle |-> currentFeature.handle,
                               onDisk |-> files[currentFeature.handle],
                               newContent |-> newContent,
                               link |-> linkLineOf(TicketKey)]
    /\ UNCHANGED <<currentFileNode, btnCreateJiraDisabled, contentPanel, saveTimeouts,
                   ticketCount, editCount, notViewerVars>>

\* click on Edit in the header of a displayed Markdown file
enterEditMode ==
    /\ jiraDialog = "hidden"
    /\ contentPanel.show = "content"
    /\ contentPanel' = [contentPanel EXCEPT !.show = "editor"]
    /\ UNCHANGED <<files, currentFileNode, reads, currentFeature, btnCreateJiraDisabled,
                   saveTimeouts, jiraDialog, ticketCount, editCount, written,
                   notViewerVars>>

\* input event of the editor: the auto-save timer is set anew
handleEditorInput ==
    /\ jiraDialog = "hidden"
    /\ contentPanel.show = "editor"
    /\ editCount < MaxEdits
    /\ editCount' = editCount + 1
    /\ contentPanel' = [contentPanel EXCEPT !.content = @ \o EditedLine]
    /\ saveTimeouts' = { t \in saveTimeouts : t.fileHandle # contentPanel.fileHandle }
                           \cup {[fileHandle |-> contentPanel.fileHandle,
                                  content |-> contentPanel'.content]}
    /\ UNCHANGED <<files, currentFileNode, reads, currentFeature, btnCreateJiraDisabled,
                   jiraDialog, ticketCount, written, notViewerVars>>

\* the auto-save timer fires: saveContent writes the editor's text
saveContent(t) ==
    /\ t \in saveTimeouts
    /\ saveTimeouts' = saveTimeouts \ {t}
    /\ files' = [files EXCEPT ![t.fileHandle] = t.content]
    /\ UNCHANGED <<currentFileNode, reads, currentFeature, btnCreateJiraDisabled,
                   contentPanel, jiraDialog, ticketCount, editCount, written,
                   notViewerVars>>

\* Done or Escape in the editor
exitEditMode ==
    /\ jiraDialog = "hidden"
    /\ contentPanel.show = "editor"
    /\ contentPanel' = [contentPanel EXCEPT !.show = "content"]
    /\ UNCHANGED <<files, currentFileNode, reads, currentFeature, btnCreateJiraDisabled,
                   saveTimeouts, jiraDialog, ticketCount, editCount, written,
                   notViewerVars>>

NextViewer ==
    \/ \E fileNode \in FileNodes : handleFileClick(fileNode)
    \/ \E r \in reads, ok \in BOOLEAN : FileClickReadSettles(r, ok)
    \/ \E r \in reads, ok \in BOOLEAN : FeatureUpdatedReadSettles(r, ok)
    \/ handleCreateJira
    \/ postCreateTicket
    \/ \E success \in BOOLEAN : TicketResponds(success)
    \/ closeJiraDialog
    \/ \E writeOk \in BOOLEAN : handleDone(writeOk)
    \/ enterEditMode
    \/ handleEditorInput
    \/ \E t \in saveTimeouts : saveContent(t)
    \/ exitEditMode

SpecViewer == InitViewer /\ [][NextViewer]_vars

\* name of the file a handle refers to
NameOf(handle) == (CHOOSE n \in FileNodes : n.handle = handle).name

\* C26: the Jira feature context is null or refers to a file named
\* feature.md, and the Create Jira button is enabled only in the latter
\* case, under every interleaving of file clicks, reads and feature-updated
\* events.
C26_ContextIsNullOrFeatureMd ==
    /\ currentFeature.handle # NoHandle => NameOf(currentFeature.handle) = "feature.md"
    /\ ~btnCreateJiraDisabled =>
           (currentFeature.handle # NoHandle /\ NameOf(currentFeature.handle) = "feature.md")

\* C29: the text written to feature.md when a ticket link is inserted is the
\* text on disk at the time of the write with only the blank line and the
\* link line added.
C29_LinkInsertionKeepsSavedEdits ==
    written # NoCall => written.newContent = withJiraLink(written.onDisk, written.link)

-----------------------------------------------------------------------------
(* The submit button of the create-feature modal *)

\* the modal opened by handleCreateFeatureClick is still open: only a
\* submission that has created its directory closes it
CreateModalOpen == calls = {}

\* the name and target entered now pass every check of validateFeatureName
EnteredFeatureIsValid ==
    /\ validateSync(form)
    /\ ~IsDirectoryIn(workspace, Append(getTargetPathSegments(form), trim(form.name)))

\* C27: while the create-feature modal is open, the submit button is enabled
\* only if the feature name and target entered now pass every validation
\* check, under every interleaving of input events, selection changes and
\* completions of earlier validations.
C27_SubmitEnabledOnlyIfValid ==
    (CreateModalOpen /\ ~submitDisabled) => EnteredFeatureIsValid

-----------------------------------------------------------------------------
(* Analysis sessions (src/js/analyze.js, handleAnalyzeClick of              *)
(* src/js/app.js): the panel, the start requests, the WebSockets of the     *)
(* sessions and the answers form.  The markup of the page is not among the  *)
(* sources; the panel starts hidden and the submit button disabled.  The    *)
(* values of the question inputs are sequences of characters here, and a    *)
(* 'questions' event is given by the number n of its items, with ids 1..n.  *)

MaxQuestions == 1
MaxPosts == 2

\* values typed into a question input
FieldValues == {<<>>, <<" ">>, <<"a">>}

\* events of the stream other than 'questions'
RenderEvents == {"output", "complete", "error", "cancelled"}

InitSessions ==
    /\ SessionIdle
    /\ DraftIdle
    /\ ViewerIdle
    /\ ClassifierIdle
    /\ ScannerIdle
    /\ StatusIdle
    /\ JiraIdle
    /\ MutatorIdle
    /\ CreateIdle
    /\ RefreshIdle
    /\ BackendIdle

\* btnSubmitAnswers.disabled as validateAllAnswers sets it for the inputs
validateAllAnswers(inputs) ==
    Cardinality({i \in DOMAIN inputs : trim(inputs[i]) # <<>>}) < Len(inputs)

\* hideAnalysisPanel's effect on the open sockets: the one analysisWebSocket
\* refers to is closed
socketsAfterHide(sockets, ref) == sockets \ {ref}

\* the inputs renderQuestions creates for n questions, after loadDrafts
loadDrafts(n) ==
    [i \in 1..n |->
        IF /\ currentSessionId # 0
           /\ currentSessionId \in DOMAIN localStorage
           /\ i \in DOMAIN localStorage[currentSessionId]
        THEN localStorage[currentSessionId][i]
        ELSE <<>>]

\* click on the analyze button of a feature folder, up to the await of fetch:
\* showAnalysisPanel
clickAnalyze ==
    /\ startRequests + sessionCount < MaxSessions
    /\ analysisPanelHidden' = FALSE
    /\ analysisFooterHidden' = TRUE
    /\ questionInputs' = <<>>
    /\ startRequests' = startRequests + 1
    /\ UNCHANGED <<btnSubmitAnswersDisabled, socketSession, openSockets, questionsOf,
                   answerPosts, posted, currentSessionId, saveTimer, localStorage,
                   sessionCount, answerRequests, cleared, notPanelVars>>

\* the response of POST /api/analyze/start arrives: connectAnalysisWebSocket
\* with the new session id, or showAnalysisError
StartSettles(ok) ==
    /\ startRequests > 0
    /\ startRequests' = startRequests - 1
    /\ IF ok
       THEN /\ sessionCount' = sessionCount + 1
            /\ currentSessionId' = sessionCount + 1
            /\ socketSession' = sessionCount + 1
            /\ openSockets' = openSockets \cup {sessionCount + 1}
            /\ UNCHANGED <<analysisFooterHidden, questionInputs>>
       ELSE /\ analysisFooterHidden' = TRUE
            /\ questionInputs' = <<>>
            /\ UNCHANGED <<sessionCount, currentSessionId, socketSession, openSockets>>
    /\ UNCHANGED <<analysisPanelHidden, btnSubmitAnswersDisabled, questionsOf, answerPosts,
                   posted, saveTimer, localStorage, answerRequests, cleared, notPanelVars>>

\* click on the close button of the panel: hideAnalysisPanel
closePanel ==
    /\ ~analysisPanelHidden
    /\ analysisPanelHidden' = TRUE
    /\ openSockets' = IF socketSession # 0
                      THEN socketsAfterHide(openSockets, socketSession)
                      ELSE openSockets
    /\ socketSession' = 0
    /\ localStorage' = clearDrafts(localStorage)
    /\ currentSessionId' = 0
    /\ UNCHANGED <<analysisFooterHidden, btnSubmitAnswersDisabled, startRequests,
                   questionsOf, answerPosts, posted, questionInputs, saveTimer,
                   sessionCount, answerRequests, cleared, notPanelVars>>

\* a 'questions' event with n items arrives on the socket of session s:
\* renderQuestions, setupQuestionListeners, loadDrafts
QuestionsArrive(s, n) ==
    /\ s \in openSockets
    /\ questionsOf' = (s :> n) @@ questionsOf
    /\ analysisFooterHidden' = FALSE
    /\ questionInputs' = loadDrafts(n)
    /\ btnSubmitAnswersDisabled' =
           IF currentSessionId # 0 /\ currentSessionId \in DOMAIN localStorage
           THEN validateAllAnswers(questionInputs')
           ELSE btnSubmitAnswersDisabled
    /\ UNCHANGED <<analysisPanelHidden, startRequests, socketSession, openSockets,
                   answerPosts, posted, currentSessionId, saveTimer, localStorage,
                   sessionCount, answerRequests, cleared, notPanelVars>>

\* another event arrives on the socket of session s: renderOutput,
\* renderSuccess, renderError or renderCancelled replaces the content
EventArrives(s, type) ==
    /\ s \in openSockets
    /\ questionInputs' = <<>>
    /\ analysisFooterHidden' =
           IF type \in {"complete", "cancelled"} THEN TRUE ELSE analysisFooterHidden
    /\ UNCHANGED <<analysisPanelHidden, btnSubmitAnswersDisabled, startRequests,
                   socketSession, openSockets, questionsOf, answerPosts, posted,
                   currentSessionId, saveTimer, localStorage, sessionCount,
                   answerRequests, cleared, notPanelVars>>

\* the backend closes the socket of session s
SocketCloses(s) ==
    /\ s \in openSockets
    /\ openSockets' = openSockets \ {s}
    /\ UNCHANGED <<analysisPanelHidden, analysisFooterHidden, btnSubmitAnswersDisabled,
                   startRequests, socketSession, questionsOf, answerPosts, posted,
                   draftVars, notPanelVars>>

\* input event of the i-th question input
typeAnswer(i, value) ==
    /\ ~analysisPanelHidden
    /\ i \in DOMAIN questionInputs
    /\ questionInputs[i] # value
    /\ questionInputs' = [questionInputs EXCEPT ![i] = value]
    /\ btnSubmitAnswersDisabled' = validateAllAnswers(questionInputs')
    /\ saveTimer' = TRUE
    /\ UNCHANGED <<analysisPanelHidden, analysisFooterHidden, startRequests, socketSession,
                   openSockets, questionsOf, answerPosts, posted, currentSessionId,
                   localStorage, sessionCount, answerRequests, cleared, notPanelVars>>

\* the 500 ms timer fires: saveDrafts
DraftTimerFires ==
    /\ saveTimer
    /\ saveTimer' = FALSE
    /\ localStorage' = saveDrafts(localStorage)
    /\ UNCHANGED <<sessionVars, currentSessionId, questionInputs, sessionCount,
                   answerRequests, cleared, notPanelVars>>

\* click on Submit Answers, up to the await of fetch
clickSubmit ==
    /\ ~analysisPanelHidden
    /\ ~analysisFooterHidden
    /\ ~btnSubmitAnswersDisabled
    /\ answerPosts < MaxPosts
    /\ posted' = [call |-> "submitAnswers",
                  session |-> currentSessionId,
                  answers |-> [i \in DOMAIN questionInputs |-> trim(questionInputs[i])],
                  questions |-> IF currentSessionId \in DOMAIN questionsOf
                                THEN questionsOf[currentSessionId] ELSE 0]
    /\ btnSubmitAnswersDisabled' = TRUE
    /\ answerPosts' = answerPosts + 1
    /\ UNCHANGED <<analysisPanelHidden, analysisFooterHidden, startRequests, socketSession,
                   openSockets, questionsOf, draftVars, notPanelVars>>

\* the response of POST .../answers arrives and submitAnswers runs to its end
AnswersSettle(ok) ==
    /\ answerPosts > 0
    /\ answerPosts' = answerPosts - 1
    /\ questionInputs' = <<>>
    /\ IF ok
       THEN /\ localStorage' = clearDrafts(localStorage)
            /\ analysisFooterHidden' = TRUE
            /\ UNCHANGED btnSubmitAnswersDisabled
       ELSE /\ btnSubmitAnswersDisabled' = FALSE
            /\ UNCHANGED <<localStorage, analysisFooterHidden>>
    /\ UNCHANGED <<analysisPanelHidden, startRequests, socketSession, openSockets,
                   questionsOf, posted, currentSessionId, saveTimer, sessionCount,
                   answerRequests, cleared, notPanelVars>>

NextSessions ==
    \/ clickAnalyze
    \/ \E ok \in BOOLEAN : StartSettles(ok)
    \/ closePanel
    \/ \E s \in openSockets, n \in 1..MaxQuestions : QuestionsArrive(s, n)
    \/ \E s \in openSockets, type \in RenderEvents : EventArrives(s, type)
    \/ \E s \in openSockets : SocketCloses(s)
    \/ \E i \in 1..MaxQuestions, value \in FieldValues : typeAnswer(i, value)
    \/ DraftTimerFires
    \/ clickSubmit
    \/ \E ok \in BOOLEAN : AnswersSettle(ok)

SpecSessions == InitSessions /\ [][NextSessions]_vars

\* C28: while the analysis panel is closed, which it is from hideAnalysisPanel
\* until the next click on an analyze button, no analysis WebSocket is open
\* and currentSessionId is null.
C28_NoSessionWhilePanelClosed ==
    analysisPanelHidden => (openSockets = {} /\ currentSessionId = 0)

\* C30: an answers request carries one answer for each question of the most
\* recent 'questions' event of its session, and none of its answers is empty.
C30_OneNonEmptyAnswerPerQuestion ==
    posted # NoCall =>
        /\ Len(posted.answers) = posted.questions
        /\ \A i \in DOMAIN posted.answers : posted.answers[i] # <<>>

====
